---- MODULE Spec2Model ----
(***************************************************************************)
(* Readout multiplexer (DAQController::ReadData / GetData / Stop / End)    *)
(* and formatter pipeline (StraxFormatter) of the dax readout host.        *)
(*                                                                         *)
(* TLC integers are 32 bit wide, so the 31-bit board clock and the         *)
(* nanosecond chunk lengths are modelled with the same arithmetic on a     *)
(* narrower clock (ClockBits) and shorter chunks (fChunkLength,            *)
(* fChunkOverlap); every other constant keeps the value of the source.     *)
(***************************************************************************)
EXTENDS Integers, Sequences, FiniteSets, TLC

VARIABLES
  fFragmentBytes,  \* StraxFormatter::fFragmentBytes (strax_fragment_payload_bytes)
  fFmt,            \* StraxFormatter::fFmt[bid], the board's DataFormatDefinition
  chanMap,         \* Options::GetChannel(bid, ch), as a function of the channel
  bufferType,      \* Options "buffer_type": "dual" or "single"
  fmtr,            \* per board: the StraxFormatter object of its worker, with the
                   \* position and the locals of the worker's thread
  sink,            \* chunks handed to the ChunkSink, in order
  lastEv,          \* history: the last call of ProcessEvent and its outcome
  fBuffer,         \* DAQController::fBuffer[bid], the board's queue
  fBufferLength,   \* DAQController::fBufferLength[bid]
  fBufferSize,     \* DAQController::fBufferSize[bid]
  fDataRate,       \* DAQController::fDataRate
  fBufferMutex,    \* DAQController::fBufferMutex[bid]: "free" or its holder
  fCheckFails,     \* DAQController::fCheckFails[bid]
  fReadLoop,       \* DAQController::fReadLoop
  fRunning,        \* DAQController::fRunning[link]
  digi,            \* per board: the V1724's clock and rollover state
  ro,              \* per link: position and locals of the thread in ReadData
  sup,             \* the supervisor: position in End / CloseProcessingThreads
  hist,            \* history of the packets: pushed, taken, dropped, freed;
                   \* frees[b] are the deletions by the worker of board b, in order
  pool,            \* the ThreadPool object, the position of each of its threads
                   \* in Run and of the thread that destroys it
  daq              \* DAQController::fStatus and the position of the thread in
                   \* InitializeElectronics / Start

vars == <<fFragmentBytes, fFmt, chanMap, bufferType, fmtr, sink, lastEv, fBuffer,
          fBufferLength, fBufferSize, fDataRate, fBufferMutex, fCheckFails,
          fReadLoop, fRunning, digi, ro, sup, hist, pool, daq>>

\* the thread pool and the arming of the controller, which the readout and
\* the workers leave alone
sideVars == <<pool, daq>>

cfgVars == <<fFragmentBytes, fFmt, chanMap, bufferType>>
ctlVars == <<fBuffer, fBufferLength, fBufferSize, fDataRate, fBufferMutex,
             fReadLoop, fRunning>>

----------------------------------------------------------------------------
(* Bounds of the model *)

ClockBits == 3        \* width of the modelled board clock (31 in the source)
fChunkLength == 6     \* StraxFormatter::fChunkLength, shortened
fChunkOverlap == 2    \* StraxFormatter::fChunkOverlap, shortened
MaxAdds == 2          \* fragments added in the chunk-routing specification
MaxTimestamp == 25    \* largest timestamp drawn in the chunk-routing specification
MaxClockCounter == 2  \* largest clock_counter of a packet handed to the decode

(* Program constants *)

event_header_words == 4
max_channels == 16
fStraxHeaderSize == 24
fChunkNameLength == 6
DeadtimeChannel == 790
DeadtimeSampleWidth == 10
StopPatience == 10

fFullChunkLength == fChunkLength + fChunkOverlap
ClockWrap == 2 ^ ClockBits

----------------------------------------------------------------------------
(* The boards, the links and the configuration *)

Boards == {1, 2}
Links == {0}
\* DAQController::fDigitizers[link]: the boards of a link, in order
fDigitizers == [l \in Links |-> <<1, 2>>]

\* V1724::DataFormatDefinition of the default firmware and of DPP-DAW
\* firmware whose channel header has chw words
DefaultFormat ==
  [ns_per_clock |-> 10, ns_per_sample |-> 10, channel_header_words |-> 0,
   channel_mask_msb_idx |-> -1, channel_time_msb_idx |-> -1]
DppDawFormat(chw, mask_idx, msb_idx) ==
  [ns_per_clock |-> 10, ns_per_sample |-> 10, channel_header_words |-> chw,
   channel_mask_msb_idx |-> mask_idx, channel_time_msb_idx |-> msb_idx]

\* the global channel labels the channel map hands out
Labels == {0, 1, 2, 3}

\* StraxFormatter::StraxFormatter(): a formatter whose thread has not started.
\* decoded, added, times and faults are history: the channels ProcessChannel
\* has fragmented, the calls of AddFragmentToBuffer, the global times derived
\* and the failures met ("boardfail", "garbled", "empty", "caen"); quitSeen
\* is whether a test of fForceQuit by the worker has found it true; clocks
\* is the history of channel_timeMSB + channel_time, in clock ticks.
NewFormatter(running) ==
  [fActive |-> TRUE, fRunning |-> running, fForceQuit |-> FALSE,
   fErrorBit |-> FALSE, fBufferLength |-> 0, fBytesProcessed |-> 0, fFragmentSize |-> 0,
   fFragmentsProcessed |-> 0, fEventsProcessed |-> 0,
   fFragments |-> << >>, fTempBuffer |-> << >>,
   fFailCounter |-> [b \in Boards |-> 0],
   fDataPerChan |-> [c \in Labels |-> 0],
   thrown |-> FALSE, quitSeen |-> FALSE, decoded |-> << >>, added |-> << >>, times |-> << >>,
   clocks |-> << >>, faults |-> << >>,
   pc |-> "idle", b |-> << >>, dp |-> << >>, idx |-> 0]

----------------------------------------------------------------------------
(* 32-bit words, kept as two 16-bit halves so that every mask and shift of *)
(* the decode is the source's.                                             *)

W(h, l) == [hi |-> h, lo |-> l]

Top4(w) == w.hi \div 4096                          \* w >> 28
Low28(w) == (w.hi % 4096) * 65536 + w.lo           \* w & 0xFFFFFFF
Low8(w) == w.lo % 256                              \* w & 0xFF
Byte3(w) == w.hi \div 256                          \* (w >> 24) & 0xFF
Low31(w) == (w.hi % 32768) * 65536 + w.lo          \* w & 0x7FFFFFFF
Low23(w) == (w.hi % 128) * 65536 + w.lo            \* w & 0x7FFFFF
Low16(w) == w.lo                                   \* w & 0xFFFF
Baseline14(w) == w.hi % 16384                      \* (w >> 16) & 0x3FFF
BoardFailBit(w) == (w.hi \div 1024) % 2 = 1        \* w & 0x4000000

Min(a, b) == IF a < b THEN a ELSE b

\* Difference of two unsigned 32-bit values: a wrapped result is larger than
\* any buffer, and is kept as the largest value TLC holds.
USub(a, b) == IF a >= b THEN a - b ELSE 2147483647

\* buff[i] of a packet (i counts from 0); a read past the end of the
\* allocation returns whatever lies there, the packet's junk word.
Rd(dp, i) == IF i < Len(dp.buff) THEN dp.buff[i + 1] ELSE dp.junk

\* std::map<std::string,int>::operator[] on the copy of the format map: a
\* key that is absent reads as 0.
FmtGet(fmt, key) == IF key \in DOMAIN fmt THEN fmt[key] ELSE 0

Bit(mask, ch) == (mask \div (2 ^ ch)) % 2 = 1
PopCount(mask) == Cardinality({ch \in 0 .. max_channels - 1 : Bit(mask, ch)})

----------------------------------------------------------------------------
(* Fragments are byte strings *)

RECURSIVE LE(_, _)
\* the n bytes of v, little-endian (fragment.append((char*)&v, sizeof(v)))
LE(v, n) == IF n = 0 THEN << >> ELSE <<v % 256>> \o LE(v \div 256, n - 1)

RECURSIVE FromLE(_)
FromLE(bytes) == IF bytes = << >> THEN 0 ELSE Head(bytes) + 256 * FromLE(Tail(bytes))

RECURSIVE PadTo(_, _, _)
\* while ((int)fragment.size() < size) fragment.append(step zero bytes)
PadTo(fragment, size, step) ==
  IF Len(fragment) < size
    THEN PadTo(fragment \o [i \in 1 .. step |-> 0], size, step)
    ELSE fragment

RECURSIVE ZeroPad(_, _)
ZeroPad(s, width) == IF Len(s) < width THEN ZeroPad("0" \o s, width) ELSE s

\* GetStringFormat(id): the chunk id as a zero-padded decimal string
GetStringFormat(id) == ZeroPad(ToString(id), fChunkNameLength)

\* fFragments[key]->append(fragment), creating the entry when it is absent
AppendTo(frags, key, fragment) ==
  [k \in DOMAIN frags \cup {key} |->
     IF k = key
       THEN (IF k \in DOMAIN frags THEN frags[k] ELSE << >>) \o fragment
       ELSE frags[k]]

\* the routing of AddFragmentToBuffer with the overlap test off by one
AddFragmentToBuffer_Strict(F, fragment, timestamp) ==
  LET chunk_id == timestamp \div fFullChunkLength
      nextpre == (chunk_id + 1) * fFullChunkLength - timestamp < fChunkOverlap
      chunk_index == GetStringFormat(chunk_id)
      nextchunk_index == GetStringFormat(chunk_id + 1)
  IN [F EXCEPT
        !.fFragments =
           IF ~nextpre
             THEN AppendTo(@, chunk_index, fragment)
             ELSE AppendTo(AppendTo(@, nextchunk_index \o "_pre", fragment),
                           chunk_index \o "_post", fragment),
        !.fFragmentSize = @ + Len(fragment),
        !.added = Append(@, <<fragment, timestamp>>)]

\* StraxFormatter::AddFragmentToBuffer on the formatter F (the warnings
\* about old and skipped chunks only log); F.added is the history of calls
AddFragmentToBuffer(F, fragment, timestamp) ==
  LET chunk_id == timestamp \div fFullChunkLength
      nextpre == (chunk_id + 1) * fFullChunkLength - timestamp <= fChunkOverlap
      chunk_index == GetStringFormat(chunk_id)
      nextchunk_index == GetStringFormat(chunk_id + 1)
  IN [F EXCEPT
        !.fFragments =
           IF ~nextpre
             THEN AppendTo(@, chunk_index, fragment)
             ELSE AppendTo(AppendTo(@, nextchunk_index \o "_pre", fragment),
                           chunk_index \o "_post", fragment),
        !.fFragmentSize = @ + Len(fragment),
        !.added = Append(@, <<fragment, timestamp>>)]

\* the artificial-deadtime fragment as GenerateArtificialDeadtime builds it
DeadtimeFragment(timestamp, bid) ==
  LET length == fFragmentBytes \div 2
      header == LE(timestamp, 8) \o LE(length, 4) \o LE(DeadtimeSampleWidth, 2)
                \o LE(DeadtimeChannel, 2) \o LE(length, 4) \o LE(0, 2)
                \o LE(0, 2) \o LE(bid, 2)
  IN PadTo(header, fFragmentBytes + fStraxHeaderSize, 1)

\* GenerateArtificialDeadtime that builds the fragment and does not add it
GenerateArtificialDeadtime_Dropped(F, timestamp, bid) == F

\* StraxFormatter::GenerateArtificialDeadtime on the formatter F
GenerateArtificialDeadtime(F, timestamp, bid) ==
  AddFragmentToBuffer(F, DeadtimeFragment(timestamp, bid), timestamp)

----------------------------------------------------------------------------
(* Decode of a channel *)

\* the k-th 16-bit sample after word `first` of the packet (the low half of
\* a word lies at the lower address)
Sample(dp, first, k) ==
  LET w == Rd(dp, first + (k \div 2))
  IN IF k % 2 = 0 THEN w.lo ELSE w.hi

RECURSIVE SampleBytes(_, _, _, _)
\* the bytes of n samples from sample k on
SampleBytes(dp, first, k, n) ==
  IF n = 0 THEN << >>
  ELSE LE(Sample(dp, first, k), 2) \o SampleBytes(dp, first, k + 1, n - 1)

\* one fragment of the loop over frag_i in ProcessChannel
ChannelFragment(dp, first, frag_i, num_frags, samples_in_pulse, Time64, sw, cl, baseline_ch) ==
  LET fragment_samples == fFragmentBytes \div 2
      samples_this_fragment ==
        IF frag_i = num_frags - 1
          THEN samples_in_pulse - frag_i * fragment_samples
          ELSE fragment_samples
      time_this_fragment == Time64 + fragment_samples * sw * frag_i
      header == LE(time_this_fragment, 8) \o LE(samples_this_fragment, 4)
                \o LE(sw, 2) \o LE(cl, 2) \o LE(samples_in_pulse, 4)
                \o LE(frag_i, 2) \o LE(baseline_ch, 2)
      raw == SampleBytes(dp, first, frag_i * fragment_samples, samples_this_fragment)
  IN PadTo(header \o raw, fFragmentBytes + fStraxHeaderSize, 2)

\* the rollover reconciliation without its test of clock_counter
LocalClockCounter_Unguarded(channel_time, header_time, clock_counter) ==
  IF 64 * channel_time > 45 * ClockWrap /\ 64 * header_time < 15 * ClockWrap
    THEN clock_counter - 1
  ELSE IF 64 * channel_time < 15 * ClockWrap /\ 64 * header_time > 45 * ClockWrap
    THEN clock_counter + 1
  ELSE clock_counter

\* the rollover reconciliation of ProcessChannel: the local clock counter.
\* 5e8 and 15e8 ticks are 15/64 and 45/64 of the clock's wrap period.
LocalClockCounter(channel_time, header_time, clock_counter) ==
  IF 64 * channel_time > 45 * ClockWrap /\ 64 * header_time < 15 * ClockWrap
     /\ clock_counter # 0
    THEN clock_counter - 1
  ELSE IF 64 * channel_time < 15 * ClockWrap /\ 64 * header_time > 45 * ClockWrap
    THEN clock_counter + 1
  ELSE clock_counter

\* channel_timeMSB + channel_time of ProcessChannel, in clock ticks, for the
\* channel whose first word is at `first`
ChannelClock(dp, first, bid, header_time, event_time, clock_counter) ==
  LET fmt == fFmt[bid]
      chw == FmtGet(fmt, "channel_header_words")
      channel_time == IF chw > 0 THEN Low31(Rd(dp, first + 1))
                      ELSE clock_counter * ClockWrap + event_time
      channel_timeMSB ==
        IF chw = 0 THEN 0
        ELSE IF chw <= 2
          THEN LocalClockCounter(channel_time, header_time, clock_counter) * ClockWrap
        ELSE IF FmtGet(fmt, "channel_time_msb_idx") = 2
          THEN Low16(Rd(dp, first + 2)) * 2 * ClockWrap
        ELSE 0
  IN channel_timeMSB + channel_time

\* Time64 of ProcessChannel, in ns
ChannelTime64(dp, first, bid, header_time, event_time, clock_counter) ==
  FmtGet(fFmt[bid], "ns_per_clk")
    * ChannelClock(dp, first, bid, header_time, event_time, clock_counter)

\* StraxFormatter::ProcessChannel: [ret, F], ret the words consumed or -1.
\* F.thrown is the runtime_error of a channel the channel map does not know.
ProcessChannel(F, dp, first, words_in_event, bid, channel, header_time, event_time, clock_counter, channel_mask) ==
  LET fmt == fFmt[bid]
      chw == FmtGet(fmt, "channel_header_words")
      channels_in_event == PopCount(channel_mask)
      raw_words == Low23(Rd(dp, first))
      channel_words ==
        IF chw > 0 THEN Min(raw_words, words_in_event)
        ELSE USub(words_in_event, event_header_words) \div channels_in_event
      baseline_ch ==
        IF chw > 0 /\ FmtGet(fmt, "channel_time_msb_idx") = 2
          THEN Baseline14(Rd(dp, first + 2)) ELSE 0
      Time64 == ChannelTime64(dp, first, bid, header_time, event_time, clock_counter)
      ticks == ChannelClock(dp, first, bid, header_time, event_time, clock_counter)
      CAENed == \E w \in chw .. channel_words - 1 : Top4(Rd(dp, first + w)) = 10
      samples_in_pulse == (channel_words - chw) * 2
      sw == FmtGet(fmt, "ns_per_sample")
      fragment_samples == fFragmentBytes \div 2
      cl == chanMap[channel]
      num_frags == samples_in_pulse \div fragment_samples
                   + (IF samples_in_pulse % fragment_samples # 0 THEN 1 ELSE 0)
      fragments == [i \in 1 .. num_frags |->
                      ChannelFragment(dp, first + chw, i - 1, num_frags,
                                      samples_in_pulse, Time64, sw, cl, baseline_ch)]
  IN IF chw > 0 /\ channel_words < raw_words
       THEN [ret |-> -1, F |-> [F EXCEPT !.faults = Append(@, "garbled")]]
     ELSE IF chw > 0 /\ channel_words <= chw
       THEN [ret |-> -1, F |-> [F EXCEPT !.faults = Append(@, "empty")]]
     ELSE IF CAENed
       THEN [ret |-> -1,
             F |-> [GenerateArtificialDeadtime(F, Time64, bid)
                    EXCEPT !.times = Append(@, Time64),
                           !.clocks = Append(@, ticks),
                           !.faults = Append(@, "caen")]]
     ELSE IF cl = -1 THEN [ret |-> -1, F |-> [F EXCEPT !.thrown = TRUE]]
     ELSE [ret |-> channel_words,
           F |-> [F EXCEPT !.fTempBuffer = @ \o fragments,
                           !.fFragmentsProcessed = @ + num_frags,
                           !.fDataPerChan[cl] = @ + samples_in_pulse * 2,
                           !.decoded = Append(@, <<first, channel>>),
                           !.times = Append(@, Time64),
                           !.clocks = Append(@, ticks)]]

----------------------------------------------------------------------------
(* Decode of an event *)

\* the global time ProcessEvent gives a board-fail event
EventTime64(bid, clock_counter, event_time) ==
  (clock_counter * ClockWrap + event_time) * FmtGet(fFmt[bid], "ns_per_clock")

\* channel_mask of ProcessEvent for the event whose header is at `base`
ChannelMask(dp, base, bid) ==
  IF FmtGet(fFmt[bid], "channel_mask_msb_idx") # -1
    THEN Low8(Rd(dp, base + 1)) + 256 * Byte3(Rd(dp, base + 2))
    ELSE Low8(Rd(dp, base + 1))

RECURSIVE ChannelLoop_Shared(_, _, _, _, _, _, _, _, _, _, _)
\* the loop over the channels with a rollover reconciliation that works on
\* the counter of the caller: a channel hands its adjusted counter on
ChannelLoop_Shared(F, dp, base, words_in_event, bid, header_time, event_time, clock_counter, channel_mask, ch, idx) ==
  IF ch >= max_channels THEN [ret |-> idx, F |-> F]
  ELSE IF ~Bit(channel_mask, ch)
    THEN ChannelLoop_Shared(F, dp, base, words_in_event, bid, header_time,
                            event_time, clock_counter, channel_mask, ch + 1, idx)
  ELSE LET r == ProcessChannel(F, dp, base + idx, words_in_event, bid, ch,
                               header_time, event_time, clock_counter, channel_mask)
           adjusted ==
             IF FmtGet(fFmt[bid], "channel_header_words") \in {1, 2}
               THEN LocalClockCounter(Low31(Rd(dp, base + idx + 1)), header_time,
                                      clock_counter)
               ELSE clock_counter
       IN IF r.ret = -1 THEN [ret |-> idx, F |-> r.F]
          ELSE ChannelLoop_Shared(r.F, dp, base, words_in_event, bid, header_time,
                                  event_time, adjusted, channel_mask, ch + 1,
                                  idx + r.ret)

RECURSIVE ChannelLoop(_, _, _, _, _, _, _, _, _, _, _)
\* for (ch = 0; ch < max_channels; ch++) of ProcessEvent, from channel ch on
\* with the cursor at idx: [ret, F]
ChannelLoop(F, dp, base, words_in_event, bid, header_time, event_time, clock_counter, channel_mask, ch, idx) ==
  IF ch >= max_channels THEN [ret |-> idx, F |-> F]
  ELSE IF ~Bit(channel_mask, ch)
    THEN ChannelLoop(F, dp, base, words_in_event, bid, header_time, event_time,
                     clock_counter, channel_mask, ch + 1, idx)
  ELSE LET r == ProcessChannel(F, dp, base + idx, words_in_event, bid, ch,
                               header_time, event_time, clock_counter, channel_mask)
       IN IF r.ret = -1 THEN [ret |-> idx, F |-> r.F]
          ELSE ChannelLoop(r.F, dp, base, words_in_event, bid, header_time,
                           event_time, clock_counter, channel_mask, ch + 1,
                           idx + r.ret)

\* ProcessEvent without the bookkeeping of a board failure
ProcessEvent_NoFailCount(F, dp, base, total_words, clock_counter, header_time, bid) ==
  LET words_in_event == Min(Low28(Rd(dp, base)), total_words)
      event_time == Low31(Rd(dp, base + 3))
      F1 == [F EXCEPT !.fEventsProcessed = @ + 1]
  IN IF BoardFailBit(Rd(dp, base + 1))
       THEN [ret |-> event_header_words, check |-> TRUE,
             F |-> [GenerateArtificialDeadtime(
                      F1, EventTime64(bid, clock_counter, event_time), bid)
                    EXCEPT !.times =
                             Append(@, EventTime64(bid, clock_counter, event_time)),
                           !.faults = Append(@, "boardfail")]]
       ELSE ChannelLoop(F1, dp, base, words_in_event, bid, header_time, event_time,
                        clock_counter, ChannelMask(dp, base, bid), 0,
                        event_header_words) @@ [check |-> FALSE]

\* StraxFormatter::ProcessEvent on the event whose header is word `base` of
\* the packet: [ret, F, check], ret the words consumed, check whether
\* fDataSource->CheckError(bid) was called
ProcessEvent(F, dp, base, total_words, clock_counter, header_time, bid) ==
  LET words_in_event == Min(Low28(Rd(dp, base)), total_words)
      event_time == Low31(Rd(dp, base + 3))
      F1 == [F EXCEPT !.fEventsProcessed = @ + 1]
  IN IF BoardFailBit(Rd(dp, base + 1))
       THEN [ret |-> event_header_words, check |-> TRUE,
             F |-> [GenerateArtificialDeadtime(
                      F1, EventTime64(bid, clock_counter, event_time), bid)
                    EXCEPT !.fFailCounter[bid] = @ + 1,
                           !.times =
                             Append(@, EventTime64(bid, clock_counter, event_time)),
                           !.faults = Append(@, "boardfail")]]
       ELSE ChannelLoop(F1, dp, base, words_in_event, bid, header_time, event_time,
                        clock_counter, ChannelMask(dp, base, bid), 0,
                        event_header_words) @@ [check |-> FALSE]

\* the words of the packet ProcessChannel reads for the channel whose data
\* begin at word `first`: buff[0] when the firmware has a channel header,
\* buff[1] and buff[2] behind the two early returns, and the words
\* fmt["channel_header_words"] .. channel_words - 1 of the sanity check (up
\* to the first 0xA word) and of the payload
ChannelReads(dp, first, words_in_event, bid, channel_mask) ==
  LET fmt == fFmt[bid]
      chw == FmtGet(fmt, "channel_header_words")
      raw_words == Low23(Rd(dp, first))
      channel_words ==
        IF chw > 0 THEN Min(raw_words, words_in_event)
        ELSE USub(words_in_event, event_header_words) \div PopCount(channel_mask)
      returned == chw > 0 /\ (channel_words < raw_words \/ channel_words <= chw)
  IN (IF chw > 0 THEN {first} ELSE {})
     \cup (IF chw > 0 /\ ~returned THEN {first + 1} ELSE {})
     \cup (IF chw > 0 /\ ~returned /\ FmtGet(fmt, "channel_time_msb_idx") = 2
             THEN {first + 2} ELSE {})
     \cup (IF returned THEN {}
           ELSE { first + w : w \in { v \in chw .. channel_words - 1 :
                    \A u \in chw .. v - 1 : Top4(Rd(dp, first + u)) # 10 } })

RECURSIVE ChannelLoopReads(_, _, _, _, _, _, _, _, _, _, _)
\* the words the channels of an event read, from channel ch on with the
\* cursor at idx
ChannelLoopReads(F, dp, base, words_in_event, bid, header_time, event_time, clock_counter, channel_mask, ch, idx) ==
  IF ch >= max_channels THEN {}
  ELSE IF ~Bit(channel_mask, ch)
    THEN ChannelLoopReads(F, dp, base, words_in_event, bid, header_time,
                          event_time, clock_counter, channel_mask, ch + 1, idx)
  ELSE LET r == ProcessChannel(F, dp, base + idx, words_in_event, bid, ch,
                               header_time, event_time, clock_counter, channel_mask)
       IN ChannelReads(dp, base + idx, words_in_event, bid, channel_mask)
          \cup (IF r.ret = -1 THEN {}
                ELSE ChannelLoopReads(r.F, dp, base, words_in_event, bid,
                                      header_time, event_time, clock_counter,
                                      channel_mask, ch + 1, idx + r.ret))

\* the words of the packet ProcessEvent reads for the event whose header is
\* word `base`: buff[0], buff[1] and buff[3] whatever total_words is,
\* buff[2] when the format has a channel_mask_msb_idx, and the words of its
\* channels unless the board-fail bit is set
EventReads(F, dp, base, total_words, clock_counter, header_time, bid) ==
  {base, base + 1, base + 3}
  \cup (IF FmtGet(fFmt[bid], "channel_mask_msb_idx") # -1 THEN {base + 2} ELSE {})
  \cup (IF BoardFailBit(Rd(dp, base + 1)) THEN {}
        ELSE ChannelLoopReads(F, dp, base, Min(Low28(Rd(dp, base)), total_words),
                              bid, header_time, Low31(Rd(dp, base + 3)),
                              clock_counter, ChannelMask(dp, base, bid), 0,
                              event_header_words))

----------------------------------------------------------------------------
(* The worker thread: StraxFormatter::ReadAndInsertData *)

fBufferNumChunks == 2

\* the chunk id of a key of F.fFragments (std::stoi of the key), found
\* among the ids of the chunks the fragments added so far went to
KeyId(F, key) ==
  CHOOSE id \in {F.added[i][2] \div fFullChunkLength + d :
                   i \in 1 .. Len(F.added), d \in {0, 1}} :
    key \in {GetStringFormat(id), GetStringFormat(id) \o "_pre",
             GetStringFormat(id) \o "_post"}

\* the chunks WriteOutFiles(false) has to write: those more than
\* fBufferNumChunks behind the newest chunk buffered
OldChunks(F) ==
  {k \in DOMAIN F.fFragments :
     \E m \in DOMAIN F.fFragments : KeyId(F, m) - KeyId(F, k) > fBufferNumChunks}

\* StraxFormatter::WriteOutFiles: the chunks `keys` are handed to the sink
\* and leave the buffer
WriteOutFiles(F, keys) ==
  [F |-> [F EXCEPT !.fFragments = [k \in DOMAIN @ \ keys |-> @[k]]],
   out |-> IF keys = {} THEN << >> ELSE <<[k \in keys |-> F.fFragments[k]]>>]

\* StraxFormatter::ReadAndInsertData, first lines
W_Start(w) ==
  /\ fmtr[w].pc = "idle"
  /\ fmtr' = [fmtr EXCEPT ![w].fActive = TRUE, ![w].fRunning = TRUE,
                          ![w].fBufferLength = 0, ![w].pc = "loop"]
  /\ UNCHANGED <<sideVars, cfgVars, ctlVars, sink, lastEv, fCheckFails, digi, ro, sup, hist>>

\* DAQController::GetData(retQ, bid), the queue of the board swapped out, as
\* the worker of a dual buffer calls it: [ret, b] and the controller's
\* fields, left alone when the call returns early
GetDataDual(bid) ==
  IF fBufferLength[bid] = 0 \/ fBuffer[bid] = << >>
    THEN [ret |-> 0, b |-> << >>, fBuffer |-> fBuffer,
          fBufferLength |-> fBufferLength, fBufferSize |-> fBufferSize]
    ELSE [ret |-> fBufferSize[bid], b |-> fBuffer[bid],
          fBuffer |-> [fBuffer EXCEPT ![bid] = << >>],
          fBufferLength |-> [fBufferLength EXCEPT ![bid] = 0],
          fBufferSize |-> [fBufferSize EXCEPT ![bid] = 0]]

\* GetData(dp, bid) without fBuffer[bid].pop()
GetDataSingle_NoPop(bid) ==
  IF fBufferLength[bid] = 0 \/ fBuffer[bid] = << >>
    THEN [ret |-> 0, b |-> << >>, fBuffer |-> fBuffer,
          fBufferLength |-> fBufferLength, fBufferSize |-> fBufferSize]
    ELSE [ret |-> 1, b |-> <<Head(fBuffer[bid])>>,
          fBuffer |-> fBuffer,
          fBufferLength |-> [fBufferLength EXCEPT ![bid] = @ - 1],
          fBufferSize |-> [fBufferSize EXCEPT ![bid] = @ - Head(fBuffer[bid]).size]]

\* DAQController::GetData(dp, bid): the packet at the front of the queue
GetDataSingle(bid) ==
  IF fBufferLength[bid] = 0 \/ fBuffer[bid] = << >>
    THEN [ret |-> 0, b |-> << >>, fBuffer |-> fBuffer,
          fBufferLength |-> fBufferLength, fBufferSize |-> fBufferSize]
    ELSE [ret |-> 1, b |-> <<Head(fBuffer[bid])>>,
          fBuffer |-> [fBuffer EXCEPT ![bid] = Tail(@)],
          fBufferLength |-> [fBufferLength EXCEPT ![bid] = @ - 1],
          fBufferSize |-> [fBufferSize EXCEPT ![bid] = @ - Head(fBuffer[bid]).size]]

\* while (fActive == true) and, in the loop, if (fDataSource->GetData(...))
\* of the worker of board w: it goes on to its first packet, or sleeps when
\* there is nothing to take
W_GetData(w) ==
  LET F == fmtr[w]
      r == IF bufferType = "dual" THEN GetDataDual(w) ELSE GetDataSingle(w)
  IN /\ F.pc = "loop"
     /\ IF ~F.fActive
          THEN /\ fmtr' = [fmtr EXCEPT ![w].pc = "end"]
               /\ UNCHANGED <<fBuffer, fBufferLength, fBufferSize, hist>>
          ELSE /\ fBufferMutex[w] = "free"
               /\ fBuffer' = r.fBuffer
               /\ fBufferLength' = r.fBufferLength
               /\ fBufferSize' = r.fBufferSize
               /\ hist' = [hist EXCEPT
                    !.taken[w] = @ \o [k \in 1 .. Len(r.b) |-> r.b[k].id],
                    !.leaked = IF r.ret = 0
                                 THEN @ \cup {r.b[k].id : k \in 1 .. Len(r.b)} ELSE @]
               /\ fmtr' = [fmtr EXCEPT ![w] =
                    IF r.ret # 0
                      THEN [F EXCEPT !.fBufferLength = Len(r.b), !.dp = Head(r.b),
                                     !.b = Tail(r.b), !.idx = 0, !.pc = "scan"]
                      ELSE F]
     /\ UNCHANGED <<sideVars, cfgVars, sink, lastEv, fDataRate, fBufferMutex, fCheckFails,
                    fReadLoop, fRunning, digi, ro, sup>>

\* one pass of the loop of ProcessDatapacket over the words of the packet:
\* [F, check, event, ret]
ProcessDatapacket(F) ==
  LET dp == F.dp
      words == Len(dp.buff)
      event == Top4(Rd(dp, F.idx)) = 10
      r == ProcessEvent(F, dp, F.idx, words - F.idx, dp.clock_counter,
                        dp.header_time, dp.bid)
      F1 == IF event THEN r.F ELSE F
      idx1 == IF event THEN F.idx + r.ret ELSE F.idx + 1
      idx2 == IF F1.fForceQuit THEN idx1 ELSE idx1 + 1
  IN [F |-> [F1 EXCEPT !.idx = idx2,
                       !.quitSeen = @ \/ (~F1.thrown /\ F1.fForceQuit),
                       !.pc = IF F1.thrown THEN "thrown"
                              ELSE IF F1.fForceQuit \/ idx2 >= words THEN "pdone"
                              ELSE "scan"],
      check |-> event /\ r.check,
      event |-> event,
      ret |-> IF event THEN r.ret ELSE 0]

\* the worker decodes the word at the cursor of its packet
W_Scan(w) ==
  LET F == fmtr[w]
  IN /\ F.pc = "scan"
     /\ \E r \in {ProcessDatapacket(F)} :
          /\ fmtr' = [fmtr EXCEPT ![w] = r.F]
          /\ fCheckFails' = IF r.check THEN [fCheckFails EXCEPT ![F.dp.bid] = TRUE]
                            ELSE fCheckFails
          /\ lastEv' = IF r.event
                         THEN [w |-> w, dp |-> F.dp, base |-> F.idx, ret |-> r.ret,
                               check |-> r.check, pre |-> F, post |-> r.F]
                         ELSE lastEv
     /\ UNCHANGED <<sideVars, cfgVars, ctlVars, sink, digi, ro, sup, hist>>

\* the end of ProcessDatapacket without the loop that deletes, on
\* fForceQuit, the packets of the batch not yet decoded
W_PacketDone_NoDrop(w) ==
  LET F == fmtr[w]
      F1 == [F EXCEPT !.fBytesProcessed = @ + F.dp.size, !.dp = << >>,
                      !.fBufferLength = IF bufferType = "dual" THEN @ - 1 ELSE 0,
                      !.quitSeen = @ \/ (bufferType = "dual" /\ F.fForceQuit)]
  IN /\ F.pc = "pdone"
     /\ IF ~F.fForceQuit /\ F.b # << >>
          THEN /\ fmtr' = [fmtr EXCEPT ![w] =
                             [F1 EXCEPT !.dp = Head(F.b), !.b = Tail(F.b),
                                        !.idx = 0, !.pc = "scan"]]
               /\ sink' = sink
          ELSE /\ \E keys \in SUBSET DOMAIN F.fFragments :
                    /\ OldChunks(F) \subseteq keys
                    /\ fmtr' = [fmtr EXCEPT ![w] =
                                  [WriteOutFiles(F1, keys).F
                                     EXCEPT !.b = << >>, !.pc = "loop"]]
                    /\ sink' = sink \o WriteOutFiles(F1, keys).out
     /\ hist' = [hist EXCEPT !.freed = @ \cup {F.dp.id},
                             !.frees[w] = Append(@, F.dp.id)]
     /\ UNCHANGED <<sideVars, cfgVars, ctlVars, lastEv, fCheckFails, digi, ro, sup>>

\* the end of ProcessDatapacket (the packet is deleted) and what follows it
\* in ReadAndInsertData: the next packet of the batch, or, at the end of the
\* batch or on fForceQuit, the deletion of the packets left, b.clear() and
\* WriteOutFiles(), which writes the old chunks and any chunk that has been
\* idle
W_PacketDone(w) ==
  LET F == fmtr[w]
      F1 == [F EXCEPT !.fBytesProcessed = @ + F.dp.size, !.dp = << >>,
                      !.fBufferLength = IF bufferType = "dual" THEN @ - 1 ELSE 0,
                      !.quitSeen = @ \/ (bufferType = "dual" /\ F.fForceQuit)]
      left == {F.b[i].id : i \in 1 .. Len(F.b)}
  IN /\ F.pc = "pdone"
     /\ IF ~F.fForceQuit /\ F.b # << >>
          THEN /\ fmtr' = [fmtr EXCEPT ![w] =
                             [F1 EXCEPT !.dp = Head(F.b), !.b = Tail(F.b),
                                        !.idx = 0, !.pc = "scan"]]
               /\ hist' = [hist EXCEPT !.freed = @ \cup {F.dp.id},
                                       !.frees[w] = Append(@, F.dp.id)]
               /\ sink' = sink
          ELSE /\ \E keys \in SUBSET DOMAIN F.fFragments :
                    /\ OldChunks(F) \subseteq keys
                    /\ fmtr' = [fmtr EXCEPT ![w] =
                                  [WriteOutFiles(F1, keys).F
                                     EXCEPT !.b = << >>, !.pc = "loop"]]
                    /\ sink' = sink \o WriteOutFiles(F1, keys).out
               /\ hist' = [hist EXCEPT !.freed = @ \cup {F.dp.id} \cup left,
                                       !.frees[w] = Append(@, F.dp.id)
                                                     \o [k \in 1 .. Len(F.b) |-> F.b[k].id],
                                       !.lost = @ \cup left]
     /\ UNCHANGED <<sideVars, cfgVars, ctlVars, lastEv, fCheckFails, digi, ro, sup>>

\* the end of ReadAndInsertData without WriteOutFiles(true)
W_End_NoFlush(w) ==
  /\ fmtr[w].pc = "end"
  /\ fmtr' = [fmtr EXCEPT ![w].fRunning = FALSE, ![w].pc = "done"]
  /\ UNCHANGED <<sideVars, cfgVars, ctlVars, sink, lastEv, fCheckFails, digi, ro, sup, hist>>

\* after the loop: if (fBytesProcessed > 0) WriteOutFiles(true);
\* fRunning = false
W_End(w) ==
  LET F == fmtr[w]
      keys == IF F.fBytesProcessed > 0 THEN DOMAIN F.fFragments ELSE {}
  IN /\ F.pc = "end"
     /\ fmtr' = [fmtr EXCEPT ![w] =
                   [WriteOutFiles(F, keys).F EXCEPT !.fRunning = FALSE, !.pc = "done"]]
     /\ sink' = sink \o WriteOutFiles(F, keys).out
     /\ UNCHANGED <<sideVars, cfgVars, ctlVars, lastEv, fCheckFails, digi, ro, sup, hist>>

----------------------------------------------------------------------------
(* States common to the specifications *)

\* the ids of the packets of a queue, and p being the beginning of q
Ids(q) == [k \in 1 .. Len(q) |-> q[k].id]
IsPrefix(p, q) == Len(p) <= Len(q) /\ SubSeq(q, 1, Len(p)) = p


NoEvent == [w |-> 0]
NoHistory == [reads |-> 0,
              pushed |-> [b \in Boards |-> << >>], taken |-> [b \in Boards |-> << >>],
              dropped |-> {}, freed |-> {}, lost |-> {}, leaked |-> {},
              frees |-> [b \in Boards |-> << >>],
              atClose |-> [b \in Boards |-> {}]]

\* the threads of the pool
PoolThreads == {1, 2}

\* ThreadPool::ThreadPool(num_threads): no task, every thread at the test
\* of the while of Run. fQueue is the number of tasks queued; run[t] is the
\* position of thread t and dtor that of the thread in ~ThreadPool.
NewThreadPool ==
  [fFinishNow |-> FALSE, fWaitingTasks |-> 0, fRunningTasks |-> 0, fQueue |-> 0,
   fMutex |-> "free", run |-> [t \in PoolThreads |-> "while"], dtor |-> "idle",
   added |-> 0]

\* the optical links InitializeElectronics programs in parallel
ArmLinks == {0, 1}

\* DAQController::DAQController: fStatus = DAXHelpers::Idle. pc is the
\* position of the control thread and i the board InitializeElectronics is
\* at; inited are the boards whose Init has returned 0, rets the values the
\* InitLink threads have written, ret the value the last call returned,
\* last the last call that has returned and from the status the last Start
\* that returned 0 was called in: history of the arming.
NewController ==
  [fStatus |-> "Idle", pc |-> "idle", i |-> 1, inited |-> {},
   rets |-> [l \in ArmLinks |-> 1], ret |-> 0, last |-> "none",
   from |-> "none"]

\* the controller after InitializeElectronics, before any thread has started
ControllerIdle ==
  /\ fBuffer = [b \in Boards |-> << >>]
  /\ fBufferLength = [b \in Boards |-> 0]
  /\ fBufferSize = [b \in Boards |-> 0]
  /\ fDataRate = 0
  /\ fBufferMutex = [b \in Boards |-> "free"]
  /\ fCheckFails = [b \in Boards |-> FALSE]
  /\ fReadLoop = FALSE
  /\ fRunning = [l \in Links |-> FALSE]
  /\ digi = [b \in Boards |-> [clock |-> 0, fRolloverCounter |-> 0, fLastClock |-> 0]]
  /\ ro = [l \in Links |-> [pc |-> "idle", i |-> 1]]
  /\ sup = [pc |-> "idle", i |-> 1]
  /\ sink = << >>
  /\ lastEv = NoEvent
  /\ pool = NewThreadPool
  /\ daq = NewController
  /\ hist = NoHistory

\* Options::GetChannel: every channel of every board has a label
FullChannelMap == [ch \in 0 .. max_channels - 1 |-> ch % 4]

----------------------------------------------------------------------------
(* Chunk routing alone: fragments of any timestamp are added to the buffer *)

InitChunk ==
  /\ ControllerIdle
  /\ fFragmentBytes \in {2, 4}
  /\ fFmt = [b \in Boards |-> DefaultFormat]
  /\ chanMap = FullChannelMap
  /\ bufferType = "dual"
  /\ fmtr = [b \in Boards |-> NewFormatter(FALSE)]

\* GenerateArtificialDeadtime(timestamp, bid) on the formatter of board 1
Chunk_Deadtime ==
  /\ Len(fmtr[1].added) < MaxAdds
  /\ \E timestamp \in 0 .. MaxTimestamp, bid \in Boards :
       fmtr' = [fmtr EXCEPT ![1] = GenerateArtificialDeadtime(@, timestamp, bid)]
  /\ UNCHANGED <<sideVars, cfgVars, ctlVars, sink, lastEv, fCheckFails, digi, ro, sup, hist>>

NextChunk == Chunk_Deadtime

SpecChunk == InitChunk /\ [][NextChunk]_vars

----------------------------------------------------------------------------
(* The decode alone: a worker that has taken one packet in single mode *)

\* event header: length, channel mask (low and high byte), board-fail bit, time
Header(len, mask, fail, time) ==
  <<W(40960 + (len \div 65536), len % 65536),
    W(IF fail THEN 1024 ELSE 0, mask % 256),
    W((mask \div 256) * 256, 0),
    W(0, time)>>

Data1 == W(4369, 8738)     \* samples 0x2222, 0x1111
Data2 == W(13107, 17476)   \* samples 0x4444, 0x3333
Data3 == W(21845, 26214)   \* samples 0x6666, 0x5555
Sentinel == W(40960, 7)    \* a payload word 0xA0000007

\* DPP-DAW channel: length word, time word, (third header word,) payload
Channel(chw, len, time, third, payload) ==
  <<W(0, len), W(0, time)>> \o (IF chw > 2 THEN <<third>> ELSE << >>) \o payload

\* the events of the default firmware the decode is given
DefaultEvents ==
  { Header(4, 0, TRUE, t) : t \in {1, ClockWrap - 1} }
  \cup { Header(4, 0, FALSE, 1) }
  \* an event whose length field exceeds the words read
  \cup { Header(7, 1, FALSE, 2) \o <<Data1, Data2>> }
  \cup { Header(4 + Len(p), 5, FALSE, 3) \o p :
           p \in {<<Data1, Data2>>, <<Data1, Data2, Data3, Data1>>,
                  <<Data1, Sentinel>>, <<Sentinel, Data1>>} }
  \cup { Header(4 + Len(p), 1, FALSE, 2) \o p :
           p \in {<<Data1>>, <<Data1, Data2>>, <<Data1, Data2, Data3>>,
                  <<Data2, Sentinel>>} }

\* the events of DPP-DAW firmware with chw channel-header words
DppDawEvents(chw) ==
  LET third == W(512, 1)
      ch(t, p) == Channel(chw, chw + Len(p), t, third, p)
      ev(mask, body) == Header(4 + Len(body), mask, FALSE, 2) \o body
  IN { Header(4, 0, TRUE, 3) }
     \cup { ev(1, ch(t, p)) : t \in {1, ClockWrap - 1},
                              p \in {<<Data1>>, <<Data1, Data2>>, <<Sentinel>>} }
     \cup { ev(3, ch(2, <<Data1>>) \o ch(3, p)) : p \in {<<Data2>>, <<Sentinel>>} }
     \cup { ev(3, ch(2, <<Sentinel>>) \o ch(3, <<Data2>>)) }
     \* two channels, the first of them at a time next to a rollover
     \cup { ev(3, ch(t1, <<Data1>>) \o ch(t2, <<Data2>>)) :
             t1 \in {1, ClockWrap - 1}, t2 \in {1, 3} }
     \* a channel whose length field exceeds the event, and an empty channel
     \cup { ev(3, Channel(chw, 99, 2, third, <<Data1>>) \o ch(3, <<Data2>>)) }
     \cup { ev(3, ch(2, <<Data1>>) \o Channel(chw, chw, 2, third, << >>)) }
     \cup { ev(1, Channel(chw, chw, 2, third, << >>)) }

Formats ==
  {DefaultFormat, DppDawFormat(2, -1, -1), DppDawFormat(2, -1, 2), DppDawFormat(3, 2, 2)}

EventsOf(fmt) ==
  IF fmt.channel_header_words = 0 THEN DefaultEvents
  ELSE DppDawEvents(fmt.channel_header_words)

\* the packets: one event, a stray word before an event, or two events
PacketsOf(fmt) ==
  EventsOf(fmt)
  \cup { <<Data1>> \o e : e \in EventsOf(fmt) }
  \cup { e1 \o e2 : e1 \in EventsOf(fmt), e2 \in {Header(4, 0, TRUE, 5)} }

JunkWords == {W(0, 0), W(1024, 1)}

\* the worker of board 1 holds one packet, under the channel map `map`
DecodeStart(map) ==
  /\ ControllerIdle
  /\ fFragmentBytes \in {4, 5, 6}
  /\ \E fmt \in Formats : fFmt = [b \in Boards |-> fmt]
  /\ chanMap = map
  /\ bufferType = "single"
  /\ \E buff \in PacketsOf(fFmt[1]), cc \in 0 .. MaxClockCounter,
        ht \in {0, ClockWrap - 1}, junk \in JunkWords, active \in BOOLEAN :
       fmtr = [b \in Boards |->
                 IF b = 1
                   THEN [NewFormatter(TRUE) EXCEPT
                           !.fActive = active, !.fBufferLength = 1, !.pc = "scan",
                           !.dp = [id |-> 1, bid |-> 1, buff |-> buff, junk |-> junk,
                                   size |-> 4 * Len(buff), clock_counter |-> cc,
                                   header_time |-> ht, read_cc |-> cc, read_ht |-> ht]]
                   ELSE NewFormatter(FALSE)]

InitDecode == DecodeStart(FullChannelMap)

NextDecode ==
  \/ W_Scan(1)
  \/ W_PacketDone(1)
  \/ W_GetData(1)
  \/ W_End(1)

SpecDecode == InitDecode /\ [][NextDecode]_vars

\* packets that end within an event: an event header in the last 1 to 3
\* words of the packet (the read stopped inside the header), alone or
\* behind an event and a stray word, and an event of DPP-DAW firmware whose
\* one channel states the length of the whole event
TailPackets(fmt) ==
  LET cut == { SubSeq(h, 1, n) : n \in 1 .. 3,
               h \in {Header(4, 0, TRUE, 1), Header(4, 0, FALSE, 1)} }
      chw == fmt.channel_header_words
  IN cut
     \cup { Header(4, 0, FALSE, 1) \o <<Data1>> \o c : c \in cut }
     \cup (IF chw = 0 THEN {}
           ELSE { Header(4 + chw + Len(p), 1, FALSE, 2)
                    \o Channel(chw, 4 + chw + Len(p), 2, W(512, 1), p) :
                  p \in {<<Data1>>, <<Data1, Data2>>} })

\* the worker of board 1 holds one packet, whole or cut short
InitTail ==
  /\ ControllerIdle
  /\ fFragmentBytes \in {4, 6}
  /\ \E fmt \in Formats : fFmt = [b \in Boards |-> fmt]
  /\ chanMap = FullChannelMap
  /\ bufferType = "single"
  /\ \E buff \in PacketsOf(fFmt[1]) \cup TailPackets(fFmt[1]),
        cc \in {0, MaxClockCounter}, ht \in {0, ClockWrap - 1}, junk \in JunkWords,
        active \in BOOLEAN :
       fmtr = [b \in Boards |->
                 IF b = 1
                   THEN [NewFormatter(TRUE) EXCEPT
                           !.fActive = active, !.fBufferLength = 1, !.pc = "scan",
                           !.dp = [id |-> 1, bid |-> 1, buff |-> buff, junk |-> junk,
                                   size |-> 4 * Len(buff), clock_counter |-> cc,
                                   header_time |-> ht, read_cc |-> cc, read_ht |-> ht]]
                   ELSE NewFormatter(FALSE)]

SpecTail == InitTail /\ [][NextDecode]_vars

\* Options::GetChannel when the channel map has no entry for channel 2 of
\* the board: -1
PartialChannelMap ==
  [ch \in 0 .. max_channels - 1 |-> IF ch = 2 THEN -1 ELSE ch % 4]

\* a packet of the default firmware, read before any rollover
InitUnmapped ==
  /\ DecodeStart(PartialChannelMap)
  /\ fFragmentBytes = 4
  /\ fFmt[1] = DefaultFormat
  /\ fmtr[1].dp.clock_counter = 0
  /\ fmtr[1].dp.header_time = 0
  /\ fmtr[1].dp.junk = W(0, 0)

\* the decode under a channel map with a hole. The thread of the worker is
\* scheduled as long as it has a step to take; behind the runtime_error,
\* which nothing catches, it has none.
SpecUnmapped == InitUnmapped /\ [][NextDecode]_vars /\ WF_vars(NextDecode)

----------------------------------------------------------------------------
(* The pipeline: the readout thread of a link, the worker of every board   *)
(* and the supervisor that ends the run                                    *)

MaxReads == 2

\* V1724::GetClockCounter(timestamp) on the state d of a board: a header
\* time below the last one seen is a rollover of the board's clock
GetClockCounter(d, timestamp) ==
  [d EXCEPT !.fRolloverCounter = IF timestamp < d.fLastClock THEN @ + 1 ELSE @,
            !.fLastClock = timestamp]

\* the clock ticks that may pass on a board between two blocks
ClockSteps == {ClockWrap \div 2 + 1}

\* V1724::ReadMBLT with data: the block holds one event, of a board failure
\* or of channel 0, stamped with the board's clock; the board takes note of
\* the header time
ReadMBLT(d, step, fail) ==
  LET clock == d.clock + step
      time == clock % ClockWrap
      buff == IF fail THEN Header(4, 0, TRUE, time)
              ELSE Header(5, 1, FALSE, time) \o <<Data1>>
  IN [digi |-> GetClockCounter([d EXCEPT !.clock = clock], time),
      buff |-> buff, size |-> 4 * Len(buff), header_time |-> time]

\* DAQController::ReadData, first line
RO_Start(l) ==
  /\ ro[l].pc = "idle"
  /\ fReadLoop' = TRUE
  /\ ro' = [ro EXCEPT ![l].pc = "clear", ![l].i = 1]
  /\ UNCHANGED <<sideVars, cfgVars, fmtr, sink, lastEv, fBuffer, fBufferLength, fBufferSize,
                 fDataRate, fBufferMutex, fCheckFails, fRunning, digi, sup, hist>>

\* ReadData: a buffer that still holds packets is brute-force cleared, under
\* the board's mutex; after the last board fRunning[link] = true
RO_Clear(l) ==
  LET bid == fDigitizers[l][ro[l].i]
      last == ro[l].i = Len(fDigitizers[l])
  IN /\ ro[l].pc = "clear"
     /\ fBufferMutex[bid] = "free"
     /\ IF fBuffer[bid] # << >>
          THEN /\ fBuffer' = [fBuffer EXCEPT ![bid] = << >>]
               /\ fDataRate' = 0
               /\ hist' = [hist EXCEPT
                    !.dropped = @ \cup {fBuffer[bid][k].id : k \in 1 .. Len(fBuffer[bid])}]
          ELSE UNCHANGED <<fBuffer, fDataRate, hist>>
     /\ fRunning' = IF last THEN [fRunning EXCEPT ![l] = TRUE] ELSE fRunning
     /\ ro' = [ro EXCEPT ![l].pc = IF last THEN "while" ELSE "clear",
                         ![l].i = IF last THEN 1 ELSE @ + 1]
     /\ UNCHANGED <<sideVars, cfgVars, fmtr, sink, lastEv, fBufferLength, fBufferSize,
                    fBufferMutex, fCheckFails, fReadLoop, digi, sup>>

\* while (fReadLoop), and behind the loop fRunning[link] = false
RO_While(l) ==
  /\ ro[l].pc = "while"
  /\ ro' = [ro EXCEPT ![l].pc = IF fReadLoop THEN "read" ELSE "done", ![l].i = 1]
  /\ fRunning' = IF fReadLoop THEN fRunning ELSE [fRunning EXCEPT ![l] = FALSE]
  /\ UNCHANGED <<sideVars, cfgVars, fmtr, sink, lastEv, fBuffer, fBufferLength, fBufferSize,
                 fDataRate, fBufferMutex, fCheckFails, fReadLoop, digi, sup, hist>>

\* the body of the loop over the digitizers, for one of them: the error
\* check the board was marked for, then ReadMBLT, which fails (break), has
\* no data, or returns a block; the block is pushed, under the mutex of the
\* board, in a packet that is given the size and the board id
RO_Read(l) ==
  LET bid == fDigitizers[l][ro[l].i]
      last == ro[l].i = Len(fDigitizers[l])
      next == [ro EXCEPT ![l].pc = IF last THEN "while" ELSE "read",
                         ![l].i = IF last THEN 1 ELSE @ + 1]
  IN /\ ro[l].pc = "read"
     /\ fCheckFails' = [fCheckFails EXCEPT ![bid] = FALSE]
     /\ \/ /\ ro' = [ro EXCEPT ![l].pc = "while"]
           /\ UNCHANGED <<fBuffer, fBufferLength, fBufferSize, fDataRate, digi, hist>>
        \/ /\ ro' = next
           /\ UNCHANGED <<fBuffer, fBufferLength, fBufferSize, fDataRate, digi, hist>>
        \/ /\ hist.reads < MaxReads
           /\ fBufferMutex[bid] = "free"
           /\ \E step \in ClockSteps, fail \in BOOLEAN :
                LET r == ReadMBLT(digi[bid], step, fail)
                    dp == [id |-> hist.reads + 1, bid |-> bid,
                           buff |-> r.buff, junk |-> W(0, 0), size |-> r.size,
                           clock_counter |-> 0, header_time |-> 0,
                           read_cc |-> r.digi.fRolloverCounter,
                           read_ht |-> r.header_time]
                IN /\ digi' = [digi EXCEPT ![bid] = r.digi]
                   /\ fBufferLength' = [fBufferLength EXCEPT ![bid] = @ + 1]
                   /\ fBuffer' = [fBuffer EXCEPT ![bid] = Append(@, dp)]
                   /\ fBufferSize' = [fBufferSize EXCEPT ![bid] = @ + dp.size]
                   /\ fDataRate' = fDataRate + dp.size
                   /\ hist' = [hist EXCEPT !.reads = @ + 1,
                                           !.pushed[bid] = Append(@, dp.id)]
           /\ ro' = next
     /\ UNCHANGED <<sideVars, cfgVars, fmtr, sink, lastEv, fBufferMutex, fReadLoop, fRunning, sup>>

\* DAQController::End begins with Stop: fReadLoop = false. The run is ended
\* once its threads have started.
S_Stop ==
  /\ sup.pc = "idle"
  /\ \A l \in Links : ro[l].pc # "idle"
  /\ \A w \in Boards : fmtr[w].pc # "idle"
  /\ fReadLoop' = FALSE
  /\ sup' = [sup EXCEPT !.pc = "stopping"]
  /\ UNCHANGED <<sideVars, cfgVars, fmtr, sink, lastEv, fBuffer, fBufferLength, fBufferSize,
                 fDataRate, fBufferMutex, fCheckFails, fRunning, digi, ro, hist>>

\* Stop has seen every fRunning[link] false; End goes on to
\* CloseProcessingThreads, which calls Close, fActive = false, on every
\* formatter
S_Close ==
  /\ sup.pc = "stopping"
  /\ \A l \in Links : ~fRunning[l]
  /\ fmtr' = [w \in Boards |-> [fmtr[w] EXCEPT !.fActive = FALSE]]
  /\ sup' = [sup EXCEPT !.pc = "closing"]
  /\ hist' = [hist EXCEPT !.atClose =
                [b \in Boards |-> {fBuffer[b][k].id : k \in 1 .. Len(fBuffer[b])}]]
  /\ UNCHANGED <<sideVars, cfgVars, ctlVars, sink, lastEv, fCheckFails, digi, ro>>

\* ~StraxFormatter of the formatter CloseProcessingThreads deletes next: a
\* thread still running when the patience of the destructor ends is told to
\* quit
S_ForceQuit ==
  LET w == sup.i
  IN /\ sup.pc = "closing"
     /\ w \in Boards
     /\ fmtr[w].fRunning
     /\ ~fmtr[w].fForceQuit
     /\ fmtr' = [fmtr EXCEPT ![w].fForceQuit = TRUE]
     /\ UNCHANGED <<sideVars, cfgVars, ctlVars, sink, lastEv, fCheckFails, digi, ro, sup, hist>>

\* the destructor returns once fRunning is false, and the thread is joined
S_Join ==
  LET w == sup.i
  IN /\ sup.pc = "closing"
     /\ w \in Boards
     /\ ~fmtr[w].fRunning
     /\ sup' = [sup EXCEPT !.i = @ + 1]
     /\ UNCHANGED <<sideVars, cfgVars, ctlVars, fmtr, sink, lastEv, fCheckFails, digi, ro, hist>>

\* End, behind CloseProcessingThreads: the packets still queued are deleted,
\* without the mutexes
S_End ==
  /\ sup.pc = "closing"
  /\ sup.i \notin Boards
  /\ fBuffer' = [b \in Boards |-> << >>]
  /\ hist' = [hist EXCEPT !.dropped =
                @ \cup UNION {{fBuffer[b][k].id : k \in 1 .. Len(fBuffer[b])} :
                                b \in Boards}]
  /\ sup' = [sup EXCEPT !.pc = "ended"]
  /\ UNCHANGED <<sideVars, cfgVars, fmtr, sink, lastEv, fBufferLength, fBufferSize, fDataRate,
                 fBufferMutex, fCheckFails, fReadLoop, fRunning, digi, ro>>

Init ==
  /\ ControllerIdle
  /\ fFragmentBytes = 4
  /\ fFmt = [b \in Boards |-> DefaultFormat]
  /\ chanMap = FullChannelMap
  /\ bufferType \in {"dual", "single"}
  /\ fmtr = [b \in Boards |-> NewFormatter(FALSE)]

Next ==
  \/ \E l \in Links : RO_Start(l) \/ RO_Clear(l) \/ RO_While(l) \/ RO_Read(l)
  \/ \E w \in Boards : W_Start(w) \/ W_GetData(w) \/ W_Scan(w) \/ W_PacketDone(w)
                       \/ W_End(w)
  \/ S_Stop
  \/ S_Close
  \/ S_ForceQuit
  \/ S_Join
  \/ S_End

Spec == Init /\ [][Next]_vars

----------------------------------------------------------------------------
(* The readout thread and DAQController::Stop and End up to the deletion   *)
(* of the boards, with the patience of Stop                                *)

\* DAQController::Stop, first lines: fReadLoop = false; int counter = 0.
\* sup.i is the counter.
Stop_Call ==
  /\ sup.pc = "idle"
  /\ fReadLoop' = FALSE
  /\ sup' = [pc |-> "polling", i |-> 0]
  /\ UNCHANGED <<sideVars, cfgVars, fmtr, sink, lastEv, fBuffer, fBufferLength, fBufferSize,
                 fDataRate, fBufferMutex, fCheckFails, fRunning, digi, ro, hist>>

\* Stop, called once the readout threads of the run have started
Stop_Begin ==
  /\ \A l \in Links : ro[l].pc # "idle"
  /\ Stop_Call

\* one pass of do { ... } while (one_still_running && counter++ < 10): the
\* loop is left when no link runs or when the counter has reached 10
Stop_Poll ==
  LET one_still_running == \E l \in Links : fRunning[l]
  IN /\ sup.pc = "polling"
     /\ sup' = IF ~one_still_running THEN [sup EXCEPT !.pc = "deactivate"]
               ELSE IF sup.i < StopPatience THEN [sup EXCEPT !.i = @ + 1]
               ELSE [pc |-> "deactivate", i |-> sup.i + 1]
     /\ UNCHANGED <<sideVars, cfgVars, ctlVars, fmtr, sink, lastEv, fCheckFails, digi, ro, hist>>

\* Stop: AcquisitionStop and EnsureStopped on every board
Stop_Deactivate ==
  /\ sup.pc = "deactivate"
  /\ sup' = [sup EXCEPT !.pc = "deactivated"]
  /\ UNCHANGED <<sideVars, cfgVars, ctlVars, fmtr, sink, lastEv, fCheckFails, digi, ro, hist>>

\* End, behind Stop, whatever Stop returned: digi->End() and delete digi
\* for every board
End_Boards ==
  /\ sup.pc = "deactivated"
  /\ sup' = [sup EXCEPT !.pc = "deleted"]
  /\ UNCHANGED <<sideVars, cfgVars, ctlVars, fmtr, sink, lastEv, fCheckFails, digi, ro, hist>>

NextStop ==
  \/ \E l \in Links : RO_Start(l) \/ RO_Clear(l) \/ RO_While(l) \/ RO_Read(l)
  \/ Stop_Begin
  \/ Stop_Poll
  \/ Stop_Deactivate
  \/ End_Boards

SpecStop == Init /\ [][NextStop]_vars

\* Stop called at any moment after the readout threads were launched, also
\* before a thread has come to the first statement of ReadData
NextRace ==
  \/ \E l \in Links : RO_Start(l) \/ RO_Clear(l) \/ RO_While(l) \/ RO_Read(l)
  \/ Stop_Call
  \/ Stop_Poll
  \/ Stop_Deactivate

SpecRace == Init /\ [][NextRace]_vars

\* every thread launched is scheduled, and so is the caller of Stop
FairRace ==
  /\ SpecRace
  /\ \A l \in Links : WF_vars(RO_Start(l) \/ RO_Clear(l) \/ RO_While(l) \/ RO_Read(l))
  /\ WF_vars(Stop_Call \/ Stop_Poll \/ Stop_Deactivate)

----------------------------------------------------------------------------
(* A worker and the deletion of its formatter by CloseProcessingThreads:   *)
(* StraxFormatter::Close and StraxFormatter::~StraxFormatter               *)

\* the packets queued for the board when the run is closed, and the passes
\* the two waiting loops of the destructor make (500 and 10 in the source)
MaxQueued == 3
ShortPatience == 1
LongPatience == 1

\* a block of two board-fail events with a stray word between them
ClosePacket(id) ==
  LET buff == Header(4, 0, TRUE, 1) \o <<Data1>> \o Header(4, 0, TRUE, 2)
  IN [id |-> id, bid |-> 1, buff |-> buff, junk |-> W(0, 0), size |-> 4 * Len(buff),
      clock_counter |-> 0, header_time |-> 0, read_cc |-> 0, read_ht |-> 0]

\* the thread of the worker of board 1 has been created and has not run
\* yet; the constructor leaves fRunning without a value
InitClose ==
  /\ fFragmentBytes = 4
  /\ fFmt = [b \in Boards |-> DefaultFormat]
  /\ chanMap = FullChannelMap
  /\ bufferType \in {"dual", "single"}
  /\ \E n \in 0 .. MaxQueued :
       /\ fBuffer = [b \in Boards |->
                       IF b = 1 THEN [k \in 1 .. n |-> ClosePacket(k)] ELSE << >>]
       /\ fBufferLength = [b \in Boards |-> IF b = 1 THEN n ELSE 0]
       /\ fBufferSize = [b \in Boards |-> IF b = 1 THEN n * ClosePacket(1).size ELSE 0]
       /\ hist = [NoHistory EXCEPT !.reads = n, !.pushed[1] = [k \in 1 .. n |-> k]]
  /\ fDataRate = 0
  /\ fBufferMutex = [b \in Boards |-> "free"]
  /\ fCheckFails = [b \in Boards |-> FALSE]
  /\ fReadLoop = FALSE
  /\ fRunning = [l \in Links |-> FALSE]
  /\ digi = [b \in Boards |-> [clock |-> 0, fRolloverCounter |-> 0, fLastClock |-> 0]]
  /\ ro = [l \in Links |-> [pc |-> "done", i |-> 1]]
  /\ \E running \in BOOLEAN :
       fmtr = [b \in Boards |-> NewFormatter(IF b = 1 THEN running ELSE FALSE)]
  /\ sup = [pc |-> "idle", counter_short |-> 0, counter_long |-> 0, events_start |-> 0,
            left |-> "no"]
  /\ sink = << >>
  /\ lastEv = NoEvent
  /\ pool = NewThreadPool
  /\ daq = NewController

\* CloseProcessingThreads, first loop: inserter->Close(board_fails)
D_Close ==
  /\ sup.pc = "idle"
  /\ fmtr' = [fmtr EXCEPT ![1].fActive = FALSE]
  /\ sup' = [sup EXCEPT !.pc = "closed"]
  /\ UNCHANGED <<sideVars, cfgVars, ctlVars, sink, lastEv, fCheckFails, digi, ro, hist>>

\* delete inserter: the destructor up to the do loop, and the first line
\* of the loop
D_Begin ==
  /\ sup.pc = "closed"
  /\ fmtr' = [fmtr EXCEPT ![1].fActive = FALSE]
  /\ sup' = [pc |-> "short", counter_short |-> 0, counter_long |-> 0,
             events_start |-> fmtr[1].fBufferLength, left |-> "no"]
  /\ UNCHANGED <<sideVars, cfgVars, ctlVars, sink, lastEv, fCheckFails, digi, ro, hist>>

\* one test of while (fRunning && counter_short++ < 500), and the sleep
D_Short ==
  /\ sup.pc = "short"
  /\ sup' = IF ~fmtr[1].fRunning THEN [sup EXCEPT !.pc = "until"]
            ELSE IF sup.counter_short < ShortPatience
              THEN [sup EXCEPT !.counter_short = @ + 1]
            ELSE [sup EXCEPT !.counter_short = @ + 1, !.pc = "until"]
  /\ UNCHANGED <<sideVars, cfgVars, ctlVars, fmtr, sink, lastEv, fCheckFails, digi, ro, hist>>

\* counter_short = 0 and the test of the do loop, while (fRunning &&
\* fBufferLength > 0 && events_start > fBufferLength && counter_long++ < 10);
\* a new pass begins with events_start = fBufferLength. sup.left records
\* what ended the loop: the worker was seen stopped, fBufferLength had not
\* gone down, it had gone down to zero, or the attempts were used up.
D_Until ==
  LET F == fmtr[1]
      progress == F.fRunning /\ F.fBufferLength > 0
                  /\ sup.events_start > F.fBufferLength
      counter_long == IF progress THEN sup.counter_long + 1 ELSE sup.counter_long
      left == IF ~F.fRunning THEN "stopped"
              ELSE IF sup.events_start <= F.fBufferLength THEN "stalled"
              ELSE IF F.fBufferLength <= 0 THEN "drained"
              ELSE "attempts"
  IN /\ sup.pc = "until"
     /\ sup' = IF progress /\ sup.counter_long < LongPatience
                 THEN [pc |-> "short", counter_short |-> 0,
                       counter_long |-> counter_long,
                       events_start |-> F.fBufferLength, left |-> "no"]
               ELSE [sup EXCEPT !.pc = "quit", !.counter_short = 0,
                                !.counter_long = counter_long, !.left = left]
     /\ UNCHANGED <<sideVars, cfgVars, ctlVars, fmtr, sink, lastEv, fCheckFails, digi, ro, hist>>

\* the destructor setting fForceQuit whether the worker runs or not
D_Quit_Always ==
  /\ sup.pc = "quit"
  /\ fmtr' = [fmtr EXCEPT ![1].fForceQuit = TRUE]
  /\ sup' = [sup EXCEPT !.pc = "final"]
  /\ UNCHANGED <<sideVars, cfgVars, ctlVars, sink, lastEv, fCheckFails, digi, ro, hist>>

\* if (fRunning) fForceQuit = true
D_Quit ==
  /\ sup.pc = "quit"
  /\ fmtr' = IF fmtr[1].fRunning THEN [fmtr EXCEPT ![1].fForceQuit = TRUE] ELSE fmtr
  /\ sup' = [sup EXCEPT !.pc = "final"]
  /\ UNCHANGED <<sideVars, cfgVars, ctlVars, sink, lastEv, fCheckFails, digi, ro, hist>>

\* while (fRunning) sleep; behind it the destructor returns
D_Return ==
  /\ sup.pc = "final"
  /\ ~fmtr[1].fRunning
  /\ sup' = [sup EXCEPT !.pc = "returned"]
  /\ UNCHANGED <<sideVars, cfgVars, ctlVars, fmtr, sink, lastEv, fCheckFails, digi, ro, hist>>

Worker(w) ==
  W_Start(w) \/ W_GetData(w) \/ W_Scan(w) \/ W_PacketDone(w) \/ W_End(w)

Destructor == D_Close \/ D_Begin \/ D_Short \/ D_Until \/ D_Quit \/ D_Return

NextClose == Worker(1) \/ Destructor

SpecClose == InitClose /\ [][NextClose]_vars

\* the thread of the worker and the thread that deletes the formatter are
\* both scheduled as long as they have a step to take
FairClose == SpecClose /\ WF_vars(Worker(1)) /\ WF_vars(Destructor)

----------------------------------------------------------------------------
(* The queues of the boards between the push of ReadData and the GetData   *)
(* of a dual buffer, statement by statement                                *)

\* the readout thread is in its loop and about to push for the board at
\* ro[0].i of its link, the workers are in their loops; fmtr[w].b is retQ
\* and fmtr[w].ret the value GetData returns
InitSwap ==
  /\ fFragmentBytes = 4
  /\ fFmt = [b \in Boards |-> DefaultFormat]
  /\ chanMap = FullChannelMap
  /\ bufferType = "dual"
  /\ fBuffer = [b \in Boards |-> << >>]
  /\ fBufferLength = [b \in Boards |-> 0]
  /\ fBufferSize = [b \in Boards |-> 0]
  /\ fDataRate = 0
  /\ fBufferMutex = [b \in Boards |-> "free"]
  /\ fCheckFails = [b \in Boards |-> FALSE]
  /\ fReadLoop = TRUE
  /\ fRunning = [l \in Links |-> TRUE]
  /\ digi = [b \in Boards |-> [clock |-> 0, fRolloverCounter |-> 0, fLastClock |-> 0]]
  /\ ro = [l \in Links |-> [pc |-> "lock", i |-> 1]]
  /\ fmtr = [b \in Boards |->
               [NewFormatter(TRUE) EXCEPT !.pc = "loop"] @@ [ret |-> 0]]
  /\ sup = [pc |-> "idle", i |-> 1]
  /\ sink = << >>
  /\ lastEv = NoEvent
  /\ pool = NewThreadPool
  /\ daq = NewController
  /\ hist = NoHistory

\* the board the readout thread of link 0 is at
PushBid == fDigitizers[0][ro[0].i]

\* ReadData: a board without data is passed; for a block read with
\* size > 0, fBufferMutex[dp->bid].lock()
P_Lock ==
  /\ ro[0].pc = "lock"
  /\ \/ /\ ro' = [ro EXCEPT ![0].i = IF @ = Len(fDigitizers[0]) THEN 1 ELSE @ + 1]
        /\ UNCHANGED fBufferMutex
     \/ /\ hist.reads < MaxReads
        /\ fBufferMutex[PushBid] = "free"
        /\ fBufferMutex' = [fBufferMutex EXCEPT ![PushBid] = "readout"]
        /\ ro' = [ro EXCEPT ![0].pc = "length"]
  /\ UNCHANGED <<sideVars, cfgVars, fmtr, sink, lastEv, fBuffer, fBufferLength, fBufferSize,
                 fDataRate, fCheckFails, fReadLoop, fRunning, digi, sup, hist>>

\* fBufferLength[dp->bid]++
P_Length ==
  /\ ro[0].pc = "length"
  /\ fBufferLength' = [fBufferLength EXCEPT ![PushBid] = @ + 1]
  /\ ro' = [ro EXCEPT ![0].pc = "push"]
  /\ UNCHANGED <<sideVars, cfgVars, fmtr, sink, lastEv, fBuffer, fBufferSize, fDataRate,
                 fBufferMutex, fCheckFails, fReadLoop, fRunning, digi, sup, hist>>

\* fBuffer[dp->bid].push(dp)
P_Push ==
  /\ ro[0].pc = "push"
  /\ fBuffer' = [fBuffer EXCEPT ![PushBid] = Append(@, ClosePacket(hist.reads + 1))]
  /\ hist' = [hist EXCEPT !.reads = @ + 1,
                          !.pushed[PushBid] = Append(@, hist.reads + 1)]
  /\ ro' = [ro EXCEPT ![0].pc = "size"]
  /\ UNCHANGED <<sideVars, cfgVars, fmtr, sink, lastEv, fBufferLength, fBufferSize, fDataRate,
                 fBufferMutex, fCheckFails, fReadLoop, fRunning, digi, sup>>

\* fBufferSize[dp->bid] += dp->size; fDataRate += dp->size
P_Size ==
  /\ ro[0].pc = "size"
  /\ fBufferSize' = [fBufferSize EXCEPT ![PushBid] = @ + ClosePacket(hist.reads).size]
  /\ fDataRate' = fDataRate + ClosePacket(hist.reads).size
  /\ ro' = [ro EXCEPT ![0].pc = "unlock"]
  /\ UNCHANGED <<sideVars, cfgVars, fmtr, sink, lastEv, fBuffer, fBufferLength, fBufferMutex,
                 fCheckFails, fReadLoop, fRunning, digi, sup, hist>>

\* the unlock behind the push; the thread goes on to the next board
P_Unlock ==
  /\ ro[0].pc = "unlock"
  /\ fBufferMutex' = [fBufferMutex EXCEPT ![PushBid] = "free"]
  /\ ro' = [ro EXCEPT ![0].pc = "lock",
                      ![0].i = IF @ = Len(fDigitizers[0]) THEN 1 ELSE @ + 1]
  /\ UNCHANGED <<sideVars, cfgVars, fmtr, sink, lastEv, fBuffer, fBufferLength, fBufferSize,
                 fDataRate, fCheckFails, fReadLoop, fRunning, digi, sup, hist>>

\* GetData(retQ, bid): if (fBufferLength[bid] == 0) return 0, before the
\* lock; the worker then sleeps and calls again
G_Check(w) ==
  /\ fmtr[w].pc = "loop"
  /\ fBufferLength[w] # 0
  /\ fmtr' = [fmtr EXCEPT ![w].pc = "lock"]
  /\ UNCHANGED <<sideVars, cfgVars, ctlVars, sink, lastEv, fCheckFails, digi, ro, sup, hist>>

\* GetData going on without taking the mutex of the board
G_Lock_NoMutex(w) ==
  /\ fmtr[w].pc = "lock"
  /\ fmtr' = [fmtr EXCEPT ![w].pc = "front"]
  /\ UNCHANGED <<sideVars, cfgVars, ctlVars, sink, lastEv, fCheckFails, digi, ro, sup, hist>>

\* const std::lock_guard<std::mutex> lock(fBufferMutex[bid])
G_Lock(w) ==
  /\ fmtr[w].pc = "lock"
  /\ fBufferMutex[w] = "free"
  /\ fBufferMutex' = [fBufferMutex EXCEPT ![w] = "worker"]
  /\ fmtr' = [fmtr EXCEPT ![w].pc = "front"]
  /\ UNCHANGED <<sideVars, cfgVars, sink, lastEv, fBuffer, fBufferLength, fBufferSize, fDataRate,
                 fCheckFails, fReadLoop, fRunning, digi, ro, sup, hist>>

\* if (fBuffer[bid].size() == 0) return 0; fBuffer[bid].swap(retQ)
G_Swap(w) ==
  /\ fmtr[w].pc = "front"
  /\ IF fBuffer[w] = << >>
       THEN /\ fmtr' = [fmtr EXCEPT ![w].ret = 0, ![w].pc = "unlock"]
            /\ fBuffer' = fBuffer
       ELSE /\ fmtr' = [fmtr EXCEPT ![w].b = fBuffer[w], ![w].pc = "length"]
            /\ fBuffer' = [fBuffer EXCEPT ![w] = << >>]
  /\ UNCHANGED <<sideVars, cfgVars, sink, lastEv, fBufferLength, fBufferSize, fDataRate,
                 fBufferMutex, fCheckFails, fReadLoop, fRunning, digi, ro, sup, hist>>

\* fBufferLength[bid] = 0
G_Length(w) ==
  /\ fmtr[w].pc = "length"
  /\ fBufferLength' = [fBufferLength EXCEPT ![w] = 0]
  /\ fmtr' = [fmtr EXCEPT ![w].pc = "size"]
  /\ UNCHANGED <<sideVars, cfgVars, sink, lastEv, fBuffer, fBufferSize, fDataRate,
                 fBufferMutex, fCheckFails, fReadLoop, fRunning, digi, ro, sup, hist>>

\* ret = fBufferSize[bid]; fBufferSize[bid] = 0
G_Size(w) ==
  /\ fmtr[w].pc = "size"
  /\ fBufferSize' = [fBufferSize EXCEPT ![w] = 0]
  /\ fmtr' = [fmtr EXCEPT ![w].ret = fBufferSize[w], ![w].pc = "unlock"]
  /\ UNCHANGED <<sideVars, cfgVars, sink, lastEv, fBuffer, fBufferLength, fDataRate,
                 fBufferMutex, fCheckFails, fReadLoop, fRunning, digi, ro, sup, hist>>

\* return: the lock guard releases the mutex. On a non-zero value the
\* worker has its batch; on zero it sleeps, and what retQ holds goes with
\* the list of that pass of its loop.
G_Return(w) ==
  LET F == fmtr[w]
      ids == {F.b[k].id : k \in 1 .. Len(F.b)}
  IN /\ F.pc = "unlock"
     /\ fBufferMutex' = [fBufferMutex EXCEPT ![w] = "free"]
     /\ IF F.ret # 0
          THEN /\ fmtr' = [fmtr EXCEPT ![w].pc = "batch", ![w].fBufferLength = Len(F.b)]
               /\ hist' = [hist EXCEPT !.taken[w] = @ \o Ids(F.b)]
          ELSE /\ fmtr' = [fmtr EXCEPT ![w].pc = "loop", ![w].b = << >>]
               /\ hist' = [hist EXCEPT !.leaked = @ \cup ids]
     /\ UNCHANGED <<sideVars, cfgVars, sink, lastEv, fBuffer, fBufferLength, fBufferSize, fDataRate,
                    fCheckFails, fReadLoop, fRunning, digi, ro, sup>>

\* the worker goes through its batch and clears it
G_Batch(w) ==
  LET F == fmtr[w]
  IN /\ F.pc = "batch"
     /\ fmtr' = [fmtr EXCEPT ![w].pc = "loop", ![w].b = << >>, ![w].fBufferLength = 0]
     /\ hist' = [hist EXCEPT !.freed = @ \cup {F.b[k].id : k \in 1 .. Len(F.b)},
                             !.frees[w] = @ \o Ids(F.b)]
     /\ UNCHANGED <<sideVars, cfgVars, ctlVars, sink, lastEv, fCheckFails, digi, ro, sup>>

NextSwap ==
  \/ P_Lock \/ P_Length \/ P_Push \/ P_Size \/ P_Unlock
  \/ \E w \in Boards : G_Check(w) \/ G_Lock(w) \/ G_Swap(w) \/ G_Length(w)
                        \/ G_Size(w) \/ G_Return(w) \/ G_Batch(w)

SpecSwap == InitSwap /\ [][NextSwap]_vars

----------------------------------------------------------------------------
(* The loop over frag_i of ProcessChannel, pass by pass, for one channel   *)
(* of an event of the default firmware                                     *)

\* frag_i is a uint16_t: FragIndexBits stands for its 16 bits. A pulse has
\* up to MaxPulseWords words, and the loop is followed for MaxPasses passes.
FragIndexBits == 2
MaxPulseWords == 3
MaxPasses == 6
FragIndexWrap == 2 ^ FragIndexBits

\* samples_in_pulse of the channel of the packet dp, which holds one event
\* of one channel
PulseSamples(dp) == (Len(dp.buff) - event_header_words) * 2

\* num_frags of ProcessChannel
NumFrags(dp) ==
  LET fragment_samples == fFragmentBytes \div 2
  IN PulseSamples(dp) \div fragment_samples
     + (IF PulseSamples(dp) % fragment_samples # 0 THEN 1 ELSE 0)

\* ProcessChannel has reached its loop for the one channel of an event;
\* fmtr[1].frag_i is the loop variable and fmtr[1].channel the channel
InitFrag ==
  /\ ControllerIdle
  /\ fFragmentBytes \in {2, 4, 5}
  /\ fFmt = [b \in Boards |-> DefaultFormat]
  /\ chanMap = FullChannelMap
  /\ bufferType = "single"
  /\ \E n \in 1 .. MaxPulseWords, channel \in 0 .. 3 :
       LET buff == Header(4 + n, 2 ^ channel, FALSE, 1)
                   \o [k \in 1 .. n |-> IF k % 2 = 1 THEN Data1 ELSE Data2]
       IN fmtr = [b \in Boards |->
                    IF b = 1
                      THEN [NewFormatter(TRUE) EXCEPT
                              !.fBufferLength = 1, !.pc = "frag",
                              !.dp = [id |-> 1, bid |-> 1, buff |-> buff,
                                      junk |-> W(0, 0), size |-> 4 * Len(buff),
                                      clock_counter |-> 0, header_time |-> 0,
                                      read_cc |-> 0, read_ht |-> 0]]
                           @@ [frag_i |-> 0, channel |-> channel]
                      ELSE NewFormatter(FALSE)]

\* one pass of for (uint16_t frag_i = 0; frag_i < num_frags; frag_i++)
Frag_Pass ==
  LET F == fmtr[1]
      Time64 == ChannelTime64(F.dp, event_header_words, 1, 0, 1, 0)
      fragment == ChannelFragment(F.dp, event_header_words, F.frag_i, NumFrags(F.dp), PulseSamples(F.dp), Time64, FmtGet(fFmt[1], "ns_per_sample"), chanMap[F.channel], 0)
  IN /\ F.pc = "frag"
     /\ F.frag_i < NumFrags(F.dp)
     /\ F.fFragmentsProcessed < MaxPasses
     /\ fmtr' = [fmtr EXCEPT ![1].fTempBuffer = Append(@, fragment),
                             ![1].fFragmentsProcessed = @ + 1,
                             ![1].frag_i = (@ + 1) % FragIndexWrap]
     /\ UNCHANGED <<sideVars, cfgVars, ctlVars, sink, lastEv, fCheckFails, digi, ro, sup, hist>>

\* the loop is left: fDataPerChan[cl] += samples_in_pulse << 1, return
Frag_Return ==
  LET F == fmtr[1]
  IN /\ F.pc = "frag"
     /\ ~(F.frag_i < NumFrags(F.dp))
     /\ fmtr' = [fmtr EXCEPT ![1].fDataPerChan[chanMap[F.channel]] =
                                @ + PulseSamples(F.dp) * 2,
                             ![1].pc = "returned"]
     /\ UNCHANGED <<sideVars, cfgVars, ctlVars, sink, lastEv, fCheckFails, digi, ro, sup, hist>>

NextFrag == Frag_Pass \/ Frag_Return

SpecFrag == InitFrag /\ [][NextFrag]_vars

----------------------------------------------------------------------------
(* The loop of ReadData statement by statement for every board of a link:  *)
(* the error inspection, the block read and what follows it, while workers *)
(* mark boards with CheckError and boards start to fail                    *)

\* the readout thread has been launched. ro[l].ret is the value ReadMBLT
\* returned last, digi[b].dead whether the block reads of the board fail
\* from now on, and hist.pending[b] whether the board has been marked with
\* CheckError since its error register was last read.
InitRead ==
  /\ fFragmentBytes = 4
  /\ fFmt = [b \in Boards |-> DefaultFormat]
  /\ chanMap = FullChannelMap
  /\ bufferType = "dual"
  /\ fBuffer = [b \in Boards |-> << >>]
  /\ fBufferLength = [b \in Boards |-> 0]
  /\ fBufferSize = [b \in Boards |-> 0]
  /\ fDataRate = 0
  /\ fBufferMutex = [b \in Boards |-> "free"]
  /\ fCheckFails = [b \in Boards |-> FALSE]
  /\ fReadLoop = FALSE
  /\ fRunning = [l \in Links |-> FALSE]
  /\ digi = [b \in Boards |->
               [clock |-> 0, fRolloverCounter |-> 0, fLastClock |-> 0, dead |-> FALSE]]
  /\ ro = [l \in Links |-> [pc |-> "idle", i |-> 1, ret |-> 0]]
  /\ fmtr = [b \in Boards |-> NewFormatter(TRUE)]
  /\ sup = [pc |-> "idle", i |-> 1]
  /\ sink = << >>
  /\ lastEv = NoEvent
  /\ pool = NewThreadPool
  /\ daq = NewController
  /\ hist = NoHistory @@ [pending |-> [b \in Boards |-> FALSE]]

\* the board the readout thread of link l is at
BoardAt(l) == fDigitizers[l][ro[l].i]

\* a board before the k-th of link l has begun to fail
DeadBefore(l, k) == \E j \in 1 .. k - 1 : digi[fDigitizers[l][j]].dead

\* what V1724::ReadMBLT returns on a board in state d: a negative value,
\* nothing, or a block of data; on a board that fails, a negative value
ReadResults(d) ==
  IF d.dead THEN {[digi |-> d, buff |-> << >>, size |-> -1, header_time |-> 0]}
  ELSE {[digi |-> d, buff |-> << >>, size |-> -1, header_time |-> 0],
        [digi |-> d, buff |-> << >>, size |-> 0, header_time |-> 0]}
       \cup {ReadMBLT(d, step, FALSE) : step \in ClockSteps}

\* the board's block reads fail from now on
Board_Dies(b) ==
  /\ ~digi[b].dead
  /\ digi' = [digi EXCEPT ![b].dead = TRUE]
  /\ UNCHANGED <<sideVars, cfgVars, ctlVars, fmtr, sink, lastEv, fCheckFails, ro, sup, hist>>

\* ProcessEvent of a worker finds the board-fail bit in an event of a
\* packet the board has delivered: fDataSource->CheckError(bid)
F_CheckError(b) ==
  /\ hist.pushed[b] # << >>
  /\ fCheckFails' = [fCheckFails EXCEPT ![b] = TRUE]
  /\ hist' = [hist EXCEPT !.pending[b] = TRUE]
  /\ UNCHANGED <<sideVars, cfgVars, ctlVars, fmtr, sink, lastEv, digi, ro, sup>>

\* if (fCheckFails[digi->bid()])
R_Test(l) ==
  /\ ro[l].pc = "read"
  /\ ro' = [ro EXCEPT ![l].pc = IF fCheckFails[BoardAt(l)] THEN "flag" ELSE "mblt"]
  /\ UNCHANGED <<sideVars, cfgVars, ctlVars, fmtr, sink, lastEv, fCheckFails, digi, sup, hist>>

\* the flag is cleared and the register is not read
R_ClearFlag_Only(l) ==
  /\ ro[l].pc = "flag"
  /\ fCheckFails' = [fCheckFails EXCEPT ![BoardAt(l)] = FALSE]
  /\ ro' = [ro EXCEPT ![l].pc = "mblt"]
  /\ UNCHANGED <<sideVars, cfgVars, ctlVars, fmtr, sink, lastEv, digi, sup, hist>>

\* fCheckFails[digi->bid()] = false
R_ClearFlag(l) ==
  /\ ro[l].pc = "flag"
  /\ fCheckFails' = [fCheckFails EXCEPT ![BoardAt(l)] = FALSE]
  /\ ro' = [ro EXCEPT ![l].pc = "errors"]
  /\ UNCHANGED <<sideVars, cfgVars, ctlVars, fmtr, sink, lastEv, digi, sup, hist>>

\* err_val = fBoardMap[digi->bid()]->CheckErrors(): the error register of
\* the board is read, and logged
R_Errors(l) ==
  /\ ro[l].pc = "errors"
  /\ hist' = [hist EXCEPT !.pending[BoardAt(l)] = FALSE]
  /\ ro' = [ro EXCEPT ![l].pc = "mblt"]
  /\ UNCHANGED <<sideVars, cfgVars, ctlVars, fmtr, sink, lastEv, fCheckFails, digi, sup>>

\* a block of no bytes is pushed like any other
ReadBranch_PushEmpty(size) ==
  IF size < 0 THEN "break" ELSE "push"

\* a failed read is passed over like a read of no bytes
ReadBranch_NoBreak(size) ==
  IF size > 0 THEN "push" ELSE "next"

\* what ReadData does with the value of ReadMBLT: if (... < 0) { ...
\* break; } if (dp->size > 0) { ... push ... }
ReadBranch(size) ==
  IF size < 0 THEN "break" ELSE IF size > 0 THEN "push" ELSE "next"

\* dp->size = digi->ReadMBLT(dp->buff, &dp->vBLT) and what follows it for
\* the board: the pass is left, or the block is pushed under the mutex of
\* the board in a packet with dp->bid = digi->bid(), or nothing is done
R_Read(l) ==
  LET bid == BoardAt(l)
      last == ro[l].i = Len(fDigitizers[l])
  IN /\ ro[l].pc = "mblt"
     /\ \E r \in ReadResults(digi[bid]) :
          LET branch == ReadBranch(r.size)
              dp == [id |-> hist.reads + 1, bid |-> bid, buff |-> r.buff,
                     junk |-> W(0, 0), size |-> r.size,
                     clock_counter |-> 0, header_time |-> 0,
                     read_cc |-> r.digi.fRolloverCounter, read_ht |-> r.header_time]
          IN /\ branch = "push" => hist.reads < MaxReads /\ fBufferMutex[bid] = "free"
             /\ digi' = [digi EXCEPT ![bid] = r.digi]
             /\ IF branch = "push"
                  THEN /\ fBufferLength' = [fBufferLength EXCEPT ![bid] = @ + 1]
                       /\ fBuffer' = [fBuffer EXCEPT ![bid] = Append(@, dp)]
                       /\ fBufferSize' = [fBufferSize EXCEPT ![bid] = @ + dp.size]
                       /\ fDataRate' = fDataRate + dp.size
                       /\ hist' = [hist EXCEPT !.reads = @ + 1,
                                               !.pushed[bid] = Append(@, dp.id)]
                  ELSE UNCHANGED <<fBuffer, fBufferLength, fBufferSize, fDataRate, hist>>
             /\ ro' = [ro EXCEPT
                         ![l].ret = r.size,
                         ![l].pc = IF branch = "break" \/ last THEN "while" ELSE "read",
                         ![l].i = IF branch = "break" THEN @
                                  ELSE IF last THEN 1 ELSE @ + 1]
     /\ UNCHANGED <<sideVars, cfgVars, fmtr, sink, lastEv, fBufferMutex, fCheckFails, fReadLoop,
                    fRunning, sup>>

\* the steps of the thread of ReadData(l)
ReadoutThread(l) ==
  \/ RO_Start(l)
  \/ RO_Clear(l)
  \/ RO_While(l)
  \/ R_Test(l)
  \/ R_ClearFlag(l)
  \/ R_Errors(l)
  \/ R_Read(l)

\* a read of the k-th board of link l that does not fail
GoodRead(l, k) == R_Read(l) /\ ro[l].i = k /\ ro'[l].ret >= 0

NextRead ==
  \/ \E l \in Links : ReadoutThread(l)
  \/ \E b \in Boards : Board_Dies(b)
  \/ \E b \in Boards : F_CheckError(b)

SpecRead == InitRead /\ [][NextRead]_vars

\* the thread of ReadData is scheduled, and a board that has not begun to
\* fail does not fail on every pass
FairRead ==
  /\ SpecRead
  /\ \A l \in Links : WF_vars(ReadoutThread(l))
  /\ \A l \in Links : \A k \in 1 .. Len(fDigitizers[l]) : SF_vars(GoodRead(l, k))

----------------------------------------------------------------------------
(* The data-rate counter: the pushes of ReadData against                   *)
(* DAQController::GetDataSize of the status thread, statement by statement *)

MaxPushes == 3

\* the readout thread is in its loop and the status thread is about to call
\* GetDataSize; hist.enqueued are the bytes of the packets pushed and
\* hist.reported the sum of the values GetDataSize has returned
InitRate ==
  /\ fBuffer = [b \in Boards |-> << >>]
  /\ fBufferLength = [b \in Boards |-> 0]
  /\ fBufferSize = [b \in Boards |-> 0]
  /\ fDataRate = 0
  /\ fBufferMutex = [b \in Boards |-> "free"]
  /\ fCheckFails = [b \in Boards |-> FALSE]
  /\ fReadLoop = TRUE
  /\ fRunning = [l \in Links |-> TRUE]
  /\ digi = [b \in Boards |-> [clock |-> 0, fRolloverCounter |-> 0, fLastClock |-> 0]]
  /\ ro = [l \in Links |-> [pc |-> "read", i |-> 1]]
  /\ sink = << >>
  /\ lastEv = NoEvent
  /\ pool = NewThreadPool
  /\ daq = NewController
  /\ fFragmentBytes = 4
  /\ fFmt = [b \in Boards |-> DefaultFormat]
  /\ chanMap = FullChannelMap
  /\ bufferType = "dual"
  /\ fmtr = [b \in Boards |-> NewFormatter(FALSE)]
  /\ hist = NoHistory @@ [enqueued |-> 0, reported |-> 0]
  /\ sup = [pc |-> "idle", i |-> 1, ds |-> 0]

\* ReadData for the board the thread is at: no data, or a block that is
\* pushed: fBufferLength[dp->bid]++; fBuffer[dp->bid].push(dp);
\* fBufferSize[dp->bid] += dp->size; fDataRate += dp->size, under the mutex
\* of the board
Rate_Push(l) ==
  LET bid == fDigitizers[l][ro[l].i]
      next == IF ro[l].i = Len(fDigitizers[l]) THEN 1 ELSE ro[l].i + 1
  IN /\ ro' = [ro EXCEPT ![l].i = next]
     /\ \/ UNCHANGED <<fBuffer, fBufferLength, fBufferSize, fDataRate, hist>>
        \/ \E buff \in {Header(4, 0, TRUE, 1), Header(5, 1, FALSE, 1) \o <<Data1>>} :
             LET dp == [id |-> hist.reads + 1, bid |-> bid, buff |-> buff,
                        junk |-> W(0, 0), size |-> 4 * Len(buff),
                        clock_counter |-> 0, header_time |-> 1,
                        read_cc |-> 0, read_ht |-> 1]
             IN /\ hist.reads < MaxPushes
                /\ fBufferLength' = [fBufferLength EXCEPT ![bid] = @ + 1]
                /\ fBuffer' = [fBuffer EXCEPT ![bid] = Append(@, dp)]
                /\ fBufferSize' = [fBufferSize EXCEPT ![bid] = @ + dp.size]
                /\ fDataRate' = fDataRate + dp.size
                /\ hist' = [hist EXCEPT !.reads = @ + 1,
                                        !.pushed[bid] = Append(@, dp.id),
                                        !.enqueued = @ + dp.size]
     /\ UNCHANGED <<sideVars, cfgVars, fmtr, sink, lastEv, fBufferMutex, fCheckFails, fReadLoop,
                    fRunning, digi, sup>>

\* GetDataSize: int ds = fDataRate
GetDataSize_Read ==
  /\ sup.pc = "idle"
  /\ sup' = [sup EXCEPT !.pc = "reset", !.ds = fDataRate]
  /\ UNCHANGED <<sideVars, cfgVars, ctlVars, fmtr, sink, lastEv, fCheckFails, digi, ro, hist>>

\* GetDataSize: fDataRate = 0; return ds
GetDataSize_Reset ==
  /\ sup.pc = "reset"
  /\ fDataRate' = 0
  /\ sup' = [sup EXCEPT !.pc = "idle", !.ds = 0]
  /\ hist' = [hist EXCEPT !.reported = @ + sup.ds]
  /\ UNCHANGED <<sideVars, cfgVars, fmtr, sink, lastEv, fBuffer, fBufferLength, fBufferSize,
                 fBufferMutex, fCheckFails, fReadLoop, fRunning, digi, ro>>

NextRate ==
  \/ \E l \in Links : Rate_Push(l)
  \/ GetDataSize_Read
  \/ GetDataSize_Reset

SpecRate == InitRate /\ [][NextRate]_vars

----------------------------------------------------------------------------
(* The thread pool: ThreadPool::Run of every thread, AddTask, and           *)
(* ThreadPool::~ThreadPool with Kill, statement by statement                *)

MaxTasks == 1

\* the pool after its constructor, every thread started
InitPool ==
  /\ ControllerIdle
  /\ fFragmentBytes = 4
  /\ fFmt = [b \in Boards |-> DefaultFormat]
  /\ chanMap = FullChannelMap
  /\ bufferType = "dual"
  /\ fmtr = [b \in Boards |-> NewFormatter(FALSE)]

PoolFrame ==
  UNCHANGED <<cfgVars, ctlVars, fmtr, sink, lastEv, fCheckFails, digi, ro, sup, hist, daq>>

\* Run: while (!fFinishNow)
Run_While(t) ==
  /\ pool.run[t] = "while"
  /\ pool' = [pool EXCEPT !.run[t] = IF pool.fFinishNow THEN "exit" ELSE "lock"]
  /\ PoolFrame

\* Run: std::unique_lock<std::mutex> lk(fMutex), and the mutex taken again
\* by a thread that has been woken in fCV.wait
Run_Lock(t) ==
  /\ pool.run[t] \in {"lock", "woken"}
  /\ pool.fMutex = "free"
  /\ pool' = [pool EXCEPT !.fMutex = "thread", !.run[t] = "pred"]
  /\ PoolFrame

\* fCV.wait(lk, pred): the predicate fWaitingTasks > 0 || fFinishNow is
\* evaluated with the mutex held
Run_Pred(t) ==
  /\ pool.run[t] = "pred"
  /\ pool' = [pool EXCEPT !.run[t] = IF pool.fWaitingTasks > 0 \/ pool.fFinishNow
                                       THEN "body" ELSE "block"]
  /\ PoolFrame

\* fCV.wait: the predicate was false, the thread releases the mutex and
\* blocks until it is notified
Run_Block(t) ==
  /\ pool.run[t] = "block"
  /\ pool' = [pool EXCEPT !.fMutex = "free", !.run[t] = "waiting"]
  /\ PoolFrame

\* a wait may end without a notification (spurious wakeup)
Run_Spurious(t) ==
  /\ pool.run[t] = "waiting"
  /\ pool' = [pool EXCEPT !.run[t] = "woken"]
  /\ PoolFrame

\* Run: if (fQueue.size() > 0 && !fFinishNow) { take the task;
\* fWaitingTasks--; fRunningTasks++; lk.unlock(); ... } else lk.unlock()
Run_Body(t) ==
  /\ pool.run[t] = "body"
  /\ pool' = IF pool.fQueue > 0 /\ ~pool.fFinishNow
               THEN [pool EXCEPT !.fQueue = @ - 1, !.fWaitingTasks = @ - 1,
                                 !.fRunningTasks = @ + 1, !.fMutex = "free",
                                 !.run[t] = "task"]
               ELSE [pool EXCEPT !.fMutex = "free", !.run[t] = "while"]
  /\ PoolFrame

\* Run: task.func(task.input); fRunningTasks--
Run_Task(t) ==
  /\ pool.run[t] = "task"
  /\ pool' = [pool EXCEPT !.fRunningTasks = @ - 1, !.run[t] = "while"]
  /\ PoolFrame

\* the steps of thread t in Run
Run(t) ==
  \/ Run_While(t) \/ Run_Lock(t) \/ Run_Pred(t) \/ Run_Block(t)
  \/ Run_Body(t) \/ Run_Task(t)

\* AddTask while the pool is in use: the task is queued and counted under
\* the mutex, then fCV.notify_one() wakes one of the threads that wait
AddTask ==
  /\ pool.dtor = "idle"
  /\ pool.added < MaxTasks
  /\ pool.fMutex = "free"
  /\ \E woken \in IF \E t \in PoolThreads : pool.run[t] = "waiting"
                    THEN {t \in PoolThreads : pool.run[t] = "waiting"} ELSE {0} :
       pool' = [pool EXCEPT !.fQueue = @ + 1, !.fWaitingTasks = @ + 1,
                            !.added = @ + 1,
                            !.run = [t \in PoolThreads |->
                                       IF t = woken THEN "woken" ELSE @[t]]]
  /\ PoolFrame

\* ~ThreadPool: Kill(): fFinishNow = true, without the mutex
Kill_Flag ==
  /\ pool.dtor = "idle"
  /\ pool' = [pool EXCEPT !.fFinishNow = TRUE, !.dtor = "notify"]
  /\ PoolFrame

\* Kill(): fCV.notify_all() wakes the threads that wait at this moment
Kill_Notify ==
  /\ pool.dtor = "notify"
  /\ pool' = [pool EXCEPT !.dtor = "lock",
                          !.run = [t \in PoolThreads |->
                                     IF @[t] = "waiting" THEN "woken" ELSE @[t]]]
  /\ PoolFrame

\* ~ThreadPool: std::unique_lock<std::mutex> lk(fMutex); fQueue.clear();
\* fWaitingTasks = 0
Dtor_Lock ==
  /\ pool.dtor = "lock"
  /\ pool.fMutex = "free"
  /\ pool' = [pool EXCEPT !.fMutex = "dtor", !.fQueue = 0, !.fWaitingTasks = 0,
                          !.dtor = "join"]
  /\ PoolFrame

\* ~ThreadPool: for (auto& t : fThreads) t.join(), which returns when
\* every thread has left Run; fThreads.clear(), and lk releases the mutex
Dtor_Join ==
  /\ pool.dtor = "join"
  /\ \A t \in PoolThreads : pool.run[t] = "exit"
  /\ pool' = [pool EXCEPT !.fMutex = "free", !.dtor = "done"]
  /\ PoolFrame

\* the steps of the thread that destroys the pool
PoolDestructor == Kill_Flag \/ Kill_Notify \/ Dtor_Lock \/ Dtor_Join

NextPool ==
  \/ \E t \in PoolThreads : Run(t)
  \/ \E t \in PoolThreads : Run_Spurious(t)
  \/ AddTask
  \/ PoolDestructor

SpecPool == InitPool /\ [][NextPool]_vars

\* every thread that can take a step takes one in the end; no wait is
\* promised to end without a notification, and no task to be added
FairPool ==
  /\ SpecPool
  /\ \A t \in PoolThreads : WF_vars(Run(t))
  /\ WF_vars(PoolDestructor)

----------------------------------------------------------------------------
(* The status of the controller: InitializeElectronics step by step, Start *)
(* and Stop, called one after the other by the control thread              *)

\* the boards of the options, in the order of GetBoards
ArmBoards == <<1, 2>>

InitArm ==
  /\ ControllerIdle
  /\ fFragmentBytes = 4
  /\ fFmt = [b \in Boards |-> DefaultFormat]
  /\ chanMap = FullChannelMap
  /\ bufferType = "dual"
  /\ fmtr = [b \in Boards |-> NewFormatter(FALSE)]

ArmFrame ==
  UNCHANGED <<cfgVars, ctlVars, fmtr, sink, lastEv, fCheckFails, digi, ro, sup, hist, pool>>

\* InitializeElectronics: End(), which leaves fStatus = Idle, then
\* fStatus = DAXHelpers::Arming
IE_Begin ==
  /\ daq.pc = "idle"
  /\ daq' = [NewController EXCEPT !.fStatus = "Arming", !.pc = "init",
                                  !.last = daq.last, !.ret = daq.ret,
                                  !.from = daq.from]
  /\ ArmFrame

\* the loop over the boards: digi->Init(...) == 0 and the board is kept, or
\* fStatus = DAXHelpers::Idle; return -1
IE_InitBoard ==
  /\ daq.pc = "init"
  /\ daq.i <= Len(ArmBoards)
  /\ \E ok \in BOOLEAN :
       daq' = IF ok
                THEN [daq EXCEPT !.inited = @ \cup {ArmBoards[daq.i]}, !.i = @ + 1]
                ELSE [daq EXCEPT !.fStatus = "Idle", !.pc = "idle", !.ret = -1,
                                 !.last = "InitializeElectronics"]
  /\ ArmFrame

\* rets[link] = 1 and one InitLink thread per link, all joined: every
\* thread has written 0, -1 (timeout, registers) or -2 (digitizer error)
IE_InitLinks ==
  /\ daq.pc = "init"
  /\ daq.i > Len(ArmBoards)
  /\ \E rets \in [ArmLinks -> {0, -1, -2}] :
       daq' = [daq EXCEPT !.rets = rets, !.pc = "check"]
  /\ ArmFrame

\* the check after the join with Idle also where a link has returned -2
IE_Check_NoError ==
  /\ daq.pc = "check"
  /\ daq' = IF \E l \in ArmLinks : daq.rets[l] # 0
              THEN [daq EXCEPT !.fStatus = "Idle",
                               !.pc = "idle", !.ret = -1,
                               !.last = "InitializeElectronics"]
              ELSE [daq EXCEPT !.fStatus = "Armed", !.pc = "idle", !.ret = 0,
                               !.last = "InitializeElectronics"]
  /\ ArmFrame

\* if (any_of(rets, != 0)) { fStatus = any_of(rets, == -2) ? Error : Idle;
\* return -1; } ... SINStart or AcquisitionStop on every board;
\* fStatus = DAXHelpers::Armed; return 0
IE_Check ==
  /\ daq.pc = "check"
  /\ daq' = IF \E l \in ArmLinks : daq.rets[l] # 0
              THEN [daq EXCEPT !.fStatus = IF \E l \in ArmLinks : daq.rets[l] = -2
                                             THEN "Error" ELSE "Idle",
                               !.pc = "idle", !.ret = -1,
                               !.last = "InitializeElectronics"]
              ELSE [daq EXCEPT !.fStatus = "Armed", !.pc = "idle", !.ret = 0,
                               !.last = "InitializeElectronics"]
  /\ ArmFrame

\* DAQController::Start: return -1 when a board is not ready or does not
\* start, else fStatus = DAXHelpers::Running; return 0. The status is not
\* tested.
DAQ_Start ==
  /\ daq.pc = "idle"
  /\ \E ok \in BOOLEAN :
       daq' = IF ok THEN [daq EXCEPT !.fStatus = "Running", !.ret = 0, !.last = "Start",
                                    !.from = daq.fStatus]
              ELSE [daq EXCEPT !.ret = -1, !.last = "Start"]
  /\ ArmFrame

\* DAQController::Stop: return -1 when a board does not stop, else
\* fStatus = DAXHelpers::Idle; return 0
DAQ_Stop ==
  /\ daq.pc = "idle"
  /\ \E ok \in BOOLEAN :
       daq' = IF ok THEN [daq EXCEPT !.fStatus = "Idle", !.ret = 0, !.last = "Stop"]
              ELSE [daq EXCEPT !.ret = -1, !.last = "Stop"]
  /\ ArmFrame

NextArm ==
  \/ IE_Begin \/ IE_InitBoard \/ IE_InitLinks \/ IE_Check
  \/ DAQ_Start
  \/ DAQ_Stop

SpecArm == InitArm /\ [][NextArm]_vars

----------------------------------------------------------------------------
(* Properties of the chunk routing and of the decode *)

\* the keys a fragment of the given timestamp belongs under
ExpectedKeys(timestamp) ==
  LET chunk_id == timestamp \div fFullChunkLength
  IN IF (chunk_id + 1) * fFullChunkLength - timestamp > fChunkOverlap
       THEN {GetStringFormat(chunk_id)}
       ELSE {GetStringFormat(chunk_id) \o "_post",
             GetStringFormat(chunk_id + 1) \o "_pre"}

RECURSIVE Routed(_, _)
\* the bytes the calls `added` of AddFragmentToBuffer put under `key`
Routed(added, key) ==
  IF added = << >> THEN << >>
  ELSE (IF key \in ExpectedKeys(Head(added)[2]) THEN Head(added)[1] ELSE << >>)
       \o Routed(Tail(added), key)

RECURSIVE TotalLen(_)
\* the bytes of all the fragments of the calls `added`
TotalLen(added) ==
  IF added = << >> THEN 0 ELSE Len(Head(added)[1]) + TotalLen(Tail(added))

\* C3: a fragment of timestamp ts, with chunk_id = ts / full_chunk_length, is
\* appended to the chunk "<chunk_id>" alone when
\* (chunk_id+1)*full_chunk_length - ts > chunk_overlap, and otherwise to both
\* "<chunk_id>_post" and "<chunk_id+1>_pre" and to no other chunk; the
\* buffered byte count grows by the fragment's length.
C3_Routing ==
  LET F == fmtr[1]
      keys == UNION {ExpectedKeys(F.added[i][2]) : i \in 1 .. Len(F.added)}
  IN F.pc = "idle" =>
       /\ DOMAIN F.fFragments = keys
       /\ \A k \in keys : F.fFragments[k] = Routed(F.added, k)
       /\ F.fFragmentSize = TotalLen(F.added)

\* a fragment exactly chunk_overlap before the end of chunk 0 was split
\* between "000000_post" and "000001_pre", after one that went to "000000"
C3_Witness ==
  LET F == fmtr[1]
  IN /\ Len(F.added) = 2
     /\ F.added[1][2] = 0
     /\ F.added[2][2] = fFullChunkLength - fChunkOverlap
     /\ DOMAIN F.fFragments = {"000000", "000000_post", "000001_pre"}

\* the events ProcessEvent was last called on
NewFaults(e) == SubSeq(e.post.faults, Len(e.pre.faults) + 1, Len(e.post.faults))
NewAdded(e) == SubSeq(e.post.added, Len(e.pre.added) + 1, Len(e.post.added))
NewDecoded(e) == SubSeq(e.post.decoded, Len(e.pre.decoded) + 1, Len(e.post.decoded))
NewTemp(e) ==
  SubSeq(e.post.fTempBuffer, Len(e.pre.fTempBuffer) + 1, Len(e.post.fTempBuffer))

\* a fragment of the artificial-deadtime channel at the given time
IsDeadtime(fragment, timestamp) ==
  /\ FromLE(SubSeq(fragment, 1, 8)) = timestamp
  /\ FromLE(SubSeq(fragment, 15, 16)) = DeadtimeChannel

\* the header of the event lies within the words read
HeaderRead(e) == e.base + event_header_words <= Len(e.dp.buff)

\* C4: every fragment ProcessChannel assembles has been routed through
\* AddFragmentToBuffer into the chunk buffer by the time the flush that
\* follows its packet has inspected the buffer.
C4_AssembledAreRouted ==
  \A w \in DOMAIN fmtr :
    fmtr[w].pc = "loop" =>
      \A i \in 1 .. Len(fmtr[w].fTempBuffer) :
        \E j \in 1 .. Len(fmtr[w].added) :
          fmtr[w].added[j][1] = fmtr[w].fTempBuffer[i]

\* C5: every fragment, of data or of artificial deadtime, is
\* payload_bytes + 24 bytes long whatever payload_bytes is, odd values
\* included.
C5_FragmentLength ==
  \A w \in DOMAIN fmtr :
    /\ \A i \in 1 .. Len(fmtr[w].fTempBuffer) :
         Len(fmtr[w].fTempBuffer[i]) = fFragmentBytes + fStraxHeaderSize
    /\ \A j \in 1 .. Len(fmtr[w].added) :
         Len(fmtr[w].added[j][1]) = fFragmentBytes + fStraxHeaderSize

\* C8: an event whose header has the board-fail bit set gives exactly one
\* artificial-deadtime fragment at ((clock_counter << 31) | event_time) *
\* ns_per_clock, marks the board for an error check, adds one to the board's
\* fail counter, consumes the four header words and decodes no channel.
C8_BoardFail ==
  LET e == lastEv
      event_time == Low31(Rd(e.dp, e.base + 3))
      timestamp == (e.dp.clock_counter * ClockWrap + event_time)
                   * fFmt[e.dp.bid].ns_per_clock
  IN (e.w # 0 /\ HeaderRead(e) /\ BoardFailBit(Rd(e.dp, e.base + 1))) =>
       /\ Len(NewAdded(e)) = 1
       /\ NewAdded(e)[1][2] = timestamp
       /\ IsDeadtime(NewAdded(e)[1][1], timestamp)
       /\ e.check
       /\ fCheckFails[e.dp.bid]
       /\ e.post.fFailCounter[e.dp.bid] = e.pre.fFailCounter[e.dp.bid] + 1
       /\ e.ret = event_header_words
       /\ NewDecoded(e) = << >>
       /\ NewTemp(e) = << >>

\* a board-fail event of a packet read after the clock had rolled over
C8_Witness ==
  /\ lastEv.w # 0
  /\ HeaderRead(lastEv)
  /\ BoardFailBit(Rd(lastEv.dp, lastEv.base + 1))
  /\ lastEv.dp.clock_counter > 0
  /\ Low31(Rd(lastEv.dp, lastEv.base + 3)) > 0
  /\ lastEv.post.fFailCounter[lastEv.dp.bid] = 1

\* C9 as stated: whichever transient failure an event meets (board-fail bit,
\* sentinel in the payload, garbled channel length, empty channel), a
\* deadtime fragment is emitted and the board is marked for error
\* inspection, and the decode goes on.
C9_EveryFailureMarked ==
  LET e == lastEv
  IN (e.w # 0 /\ NewFaults(e) # << >>) =>
       /\ Len(NewAdded(e)) = 1
       /\ FromLE(SubSeq(NewAdded(e)[1][1], 15, 16)) = DeadtimeChannel
       /\ e.check
       /\ ~e.post.thrown

\* C9 as the code has it: a board-fail event emits one deadtime fragment and
\* marks the board; a sentinel in the payload emits one deadtime fragment and
\* does not mark the board; a garbled channel length and an empty channel
\* emit nothing and do not mark the board. In every case ProcessEvent
\* returns without an exception and the scan of the packet goes on.
C9_FailureHandling ==
  LET e == lastEv
      fault == NewFaults(e)[1]
      oneDeadtime == /\ Len(NewAdded(e)) = 1
                     /\ FromLE(SubSeq(NewAdded(e)[1][1], 15, 16)) = DeadtimeChannel
  IN (e.w # 0 /\ NewFaults(e) # << >>) =>
       /\ Len(NewFaults(e)) = 1
       /\ (fault = "boardfail" => (oneDeadtime /\ e.check))
       /\ (fault = "caen" => (oneDeadtime /\ ~e.check))
       /\ (fault \in {"garbled", "empty"} => (NewAdded(e) = << >> /\ ~e.check))
       /\ ~e.post.thrown
       /\ e.ret >= event_header_words
       /\ e.post.pc \in {"scan", "pdone"}

\* a sentinel ended an event without marking the board, and the scan went
\* on over the words behind the event to the end of the packet
C9_Witness ==
  /\ lastEv.w # 0
  /\ NewFaults(lastEv) = <<"caen">>
  /\ ~lastEv.check
  /\ Len(NewAdded(lastEv)) = 1
  /\ fmtr[lastEv.w].pc = "pdone"
  /\ fmtr[lastEv.w].idx > lastEv.post.idx

\* C10: a word whose top four bits are 0xA in the payload of a channel gives
\* exactly one artificial-deadtime fragment at that channel's global time,
\* ns_per_clock * (channel_timeMSB + channel_time); no data fragment is
\* produced for that channel, none of the remaining channels of the event is
\* decoded, and the channels decoded before it are kept.
C10_Sentinel ==
  LET e == lastEv
      first == e.base + e.ret
      timestamp == fFmt[e.dp.bid].ns_per_clock
                   * ChannelClock(e.dp, first, e.dp.bid, e.dp.header_time,
                                  Low31(Rd(e.dp, e.base + 3)), e.dp.clock_counter)
  IN (e.w # 0 /\ NewFaults(e) = <<"caen">>) =>
       /\ Len(NewAdded(e)) = 1
       /\ IsDeadtime(NewAdded(e)[1][1], timestamp)
       /\ \A i \in 1 .. Len(NewDecoded(e)) : NewDecoded(e)[i][1] < first
       /\ Len(NewTemp(e)) >= Len(NewDecoded(e))
       /\ e.pre.fTempBuffer \o NewTemp(e) = e.post.fTempBuffer

\* C10 but for the time of the fragment
C10_SentinelButTime ==
  LET e == lastEv
      first == e.base + e.ret
  IN (e.w # 0 /\ NewFaults(e) = <<"caen">>) =>
       /\ Len(NewAdded(e)) = 1
       /\ FromLE(SubSeq(NewAdded(e)[1][1], 15, 16)) = DeadtimeChannel
       /\ \A i \in 1 .. Len(NewDecoded(e)) : NewDecoded(e)[i][1] < first
       /\ Len(NewTemp(e)) >= Len(NewDecoded(e))

\* C11: when the channel map returns -1 for a channel, no fragment of that
\* channel is assembled or buffered under any label, and the worker ends in
\* a way its supervisor can see: its fRunning becomes false, or its
\* fErrorBit is set for CheckErrors to report.
C11_UnmappedStops ==
  /\ [](\A w \in Boards : \A k \in 1 .. Len(fmtr[w].decoded) :
          chanMap[fmtr[w].decoded[k][2]] # -1)
  /\ \A w \in Boards :
       fmtr[w].thrown ~> (~fmtr[w].fRunning \/ fmtr[w].fErrorBit)

\* the header field at bytes from .. to (counted from 1) of a fragment
Field(fragment, from, to) == FromLE(SubSeq(fragment, from, to))

\* C18: the artificial-deadtime fragment has time = the timestamp given,
\* length = pulse length = payload_bytes/2, sample width 10, channel 790,
\* fragment index 0, the board id in the last two bytes of its 24-byte
\* header, and only zero bytes from offset 24 on.
C18_DeadtimeLayout ==
  \A i \in 1 .. Len(fmtr[1].added) :
    LET fragment == fmtr[1].added[i][1]
    IN /\ Field(fragment, 1, 8) = fmtr[1].added[i][2]
       /\ Field(fragment, 9, 12) = fFragmentBytes \div 2
       /\ Field(fragment, 13, 14) = DeadtimeSampleWidth
       /\ Field(fragment, 15, 16) = DeadtimeChannel
       /\ Field(fragment, 17, 20) = fFragmentBytes \div 2
       /\ Field(fragment, 21, 22) = 0
       /\ Field(fragment, fStraxHeaderSize - 1, fStraxHeaderSize) \in Boards
       /\ \A k \in fStraxHeaderSize + 1 .. Len(fragment) : fragment[k] = 0

RECURSIVE SumSamples(_)
\* the sum of the header field samples_this_fragment over fragments
SumSamples(fragments) ==
  IF fragments = << >> THEN 0
  ELSE Field(Head(fragments), 9, 12) + SumSamples(Tail(fragments))

\* C19: the samples_this_fragment fields of the fragments of a pulse add
\* up to its pulse_samples field, never to more while the fragments are
\* being produced, and every fragment but the last has payload_bytes/2
\* samples.
C19_SamplesAddUp ==
  LET F == fmtr[1]
      frs == F.fTempBuffer
  IN F.pc \in {"frag", "returned"} =>
       /\ \A i \in 1 .. Len(frs) : Field(frs[i], 17, 20) = PulseSamples(F.dp)
       /\ SumSamples(frs) <= PulseSamples(F.dp)
       /\ F.pc = "returned" => SumSamples(frs) = PulseSamples(F.dp)
       /\ \A i \in 1 .. Len(frs) - 1 : Field(frs[i], 9, 12) = fFragmentBytes \div 2

\* C20: the fragment index stored in every fragment of a pulse is below
\* ceil(pulse_samples / (payload_bytes/2)), and the indices of the
\* fragments of a pulse are 0, 1, ..., num_frags-1, none of them twice.
C20_FragmentIndex ==
  LET F == fmtr[1]
      frs == F.fTempBuffer
  IN F.pc \in {"frag", "returned"} =>
       /\ \A i \in 1 .. Len(frs) :
            Field(frs[i], 21, 22) * (fFragmentBytes \div 2) < Field(frs[i], 17, 20)
       /\ \A i, j \in 1 .. Len(frs) :
            Field(frs[i], 21, 22) = Field(frs[j], 21, 22) => i = j
       /\ \A i \in 1 .. Len(frs) : Field(frs[i], 21, 22) = i - 1
       /\ F.pc = "returned" => Len(frs) = NumFrags(F.dp)

\* C31: the loop over frag_i of ProcessChannel ends for every length of a
\* channel, one that needs more fragments than frag_i can count included: a
\* pass is made only while fewer than num_frags passes have been made, so
\* that num_frags less the passes made is a bound on the passes to come.
C31_LoopEnds ==
  LET F == fmtr[1]
  IN F.pc \in {"frag", "returned"} => F.fFragmentsProcessed <= NumFrags(F.dp)

\* the first fragments of their pulses among the fragments frs
ZeroFrags(frs) == SelectSeq(frs, LAMBDA f : Field(f, 21, 22) = 0)

NewClocks(e) == SubSeq(e.post.clocks, Len(e.pre.clocks) + 1, Len(e.post.clocks))

\* the event of lastEv has had channels fragmented, each into at least one
\* fragment
Fragmented(e) ==
  /\ e.w # 0
  /\ Len(NewDecoded(e)) > 0
  /\ Len(ZeroFrags(NewTemp(e))) = Len(NewDecoded(e))

\* C21: the time in the header of fragment 0 of a channel is
\* ns_per_clock * (time_msb + channel_time), with the ns_per_clock of the
\* board's format that the deadtime fragment of a board failure is timed
\* with; for the default firmware that is ns_per_clock * ((clock_counter
\* << 31) + event_time).
C21_FragmentTime ==
  LET e == lastEv
      bid == e.dp.bid
      event_time == Low31(Rd(e.dp, e.base + 3))
  IN Fragmented(e) =>
       \A k \in 1 .. Len(NewDecoded(e)) :
         /\ Field(ZeroFrags(NewTemp(e))[k], 1, 8)
              = FmtGet(fFmt[bid], "ns_per_clock")
                * ChannelClock(e.dp, NewDecoded(e)[k][1], bid, e.dp.header_time,
                               event_time, e.dp.clock_counter)
         /\ FmtGet(fFmt[bid], "channel_header_words") = 0 =>
              Field(ZeroFrags(NewTemp(e))[k], 1, 8)
                = EventTime64(bid, e.dp.clock_counter, event_time)

\* C22: with channel_header_words = 2 and channel_time_msb_idx = 2 the
\* global time of a channel is ns_per_clock * (((words[2] & 0xFFFF) << 32)
\* | channel_time), whatever the clock_counter of the packet.
C22_DppDawTime ==
  LET e == lastEv
      fmt == fFmt[e.dp.bid]
  IN (/\ Fragmented(e)
      /\ FmtGet(fmt, "channel_header_words") = 2
      /\ FmtGet(fmt, "channel_time_msb_idx") = 2) =>
       \A k \in 1 .. Len(NewDecoded(e)) :
         LET first == NewDecoded(e)[k][1]
         IN Field(ZeroFrags(NewTemp(e))[k], 1, 8)
              = FmtGet(fmt, "ns_per_clock")
                * (Low16(Rd(e.dp, first + 2)) * 2 * ClockWrap
                   + Low31(Rd(e.dp, first + 1)))

\* the local clock counter ProcessChannel has used for the k-th channel of
\* the event of lastEv: channel_timeMSB >> 31
LocalCounter(e, k) ==
  (NewClocks(e)[k] - Low31(Rd(e.dp, NewDecoded(e)[k][1] + 1))) \div ClockWrap

\* the event of lastEv is of a firmware whose channels go through the
\* rollover reconciliation
Reconciled(e) ==
  /\ e.w # 0
  /\ FmtGet(fFmt[e.dp.bid], "channel_header_words") \in {1, 2}
  /\ Len(NewDecoded(e)) > 0

\* C23: in the rollover reconciliation the local clock counter is one less
\* than the packet's exactly when channel_time > 1.5e9, header_time < 5e8
\* and clock_counter > 0, one more exactly when channel_time < 5e8 and
\* header_time > 1.5e9, the same otherwise, and never negative.
C23_Rollover ==
  LET e == lastEv
      cc == e.dp.clock_counter
      ht == e.dp.header_time
  IN Reconciled(e) =>
       \A k \in 1 .. Len(NewDecoded(e)) :
         LET ct == Low31(Rd(e.dp, NewDecoded(e)[k][1] + 1))
             down == 64 * ct > 45 * ClockWrap /\ 64 * ht < 15 * ClockWrap /\ cc > 0
             up == 64 * ct < 15 * ClockWrap /\ 64 * ht > 45 * ClockWrap
         IN /\ LocalCounter(e, k) = cc - 1 <=> down
            /\ LocalCounter(e, k) = cc + 1 <=> up
            /\ LocalCounter(e, k) = cc <=> ~down /\ ~up
            /\ LocalCounter(e, k) >= 0

\* a channel whose counter has been taken down from 1 to 0
C23_Witness ==
  /\ Reconciled(lastEv)
  /\ lastEv.dp.clock_counter = 1
  /\ LocalCounter(lastEv, 1) = 0

\* C32: the rollover reconciliation of ProcessChannel works on a copy of
\* the clock counter: decoding leaves the packet, its clock_counter and the
\* rollover state of the boards as they were, and every channel of an event
\* starts from the clock_counter of the packet, whatever the adjustment made
\* for the channels before it.
C32_LocalCopy ==
  /\ [][\A w \in Boards :
          fmtr[w].pc = "scan" => (fmtr'[w].dp = fmtr[w].dp /\ digi' = digi)]_vars
  /\ [](Reconciled(lastEv) =>
          /\ lastEv.post.dp = lastEv.dp
          /\ \A k \in 1 .. Len(NewDecoded(lastEv)) :
               LocalCounter(lastEv, k)
                 = LocalClockCounter(Low31(Rd(lastEv.dp, NewDecoded(lastEv)[k][1] + 1)),
                                     lastEv.dp.header_time, lastEv.dp.clock_counter))

\* an event of two channels, the counter adjusted for both
C32_Witness ==
  /\ Reconciled(lastEv)
  /\ Len(NewDecoded(lastEv)) = 2
  /\ LocalCounter(lastEv, 1) = lastEv.dp.clock_counter + 1
  /\ LocalCounter(lastEv, 2) = lastEv.dp.clock_counter + 1

RECURSIVE EventsFrom(_, _)
\* the number of events that lie back to back from word idx to the end of
\* the packet, each with a header and the length its header states; -1
\* when the words from idx on are not such events
EventsFrom(dp, idx) ==
  IF idx = Len(dp.buff) THEN 0
  ELSE IF \/ idx + event_header_words > Len(dp.buff)
          \/ Top4(Rd(dp, idx)) # 10
          \/ Low28(Rd(dp, idx)) < event_header_words
          \/ idx + Low28(Rd(dp, idx)) > Len(dp.buff)
    THEN -1
  ELSE LET n == EventsFrom(dp, idx + Low28(Rd(dp, idx)))
       IN IF n = -1 THEN -1 ELSE n + 1

\* C29: of a packet of N well-formed events back to back all N are
\* decoded; behind an event the scan goes on at the word that follows the
\* words the event consumed, and a word that is no header moves the scan on
\* by one word.
C29_BackToBack ==
  /\ [][\A w \in Boards :
          (fmtr[w].pc = "scan" /\ fmtr'[w].pc = "scan") =>
            fmtr'[w].idx = fmtr[w].idx
                           + (IF Top4(Rd(fmtr[w].dp, fmtr[w].idx)) = 10
                                THEN lastEv'.ret ELSE 1)]_vars
  /\ [](\A w \in Boards :
          (/\ fmtr[w].pc = "pdone"
           /\ ~fmtr[w].fForceQuit
           /\ EventsFrom(fmtr[w].dp, 0) >= 1
           /\ \A i \in 1 .. Len(fmtr[w].faults) : fmtr[w].faults[i] = "boardfail")
            => fmtr[w].fEventsProcessed = EventsFrom(fmtr[w].dp, 0))

\* the words ProcessEvent and ProcessChannel read for the event e
ReadsOf(e) ==
  EventReads(e.pre, e.dp, e.base, Len(e.dp.buff) - e.base, e.dp.clock_counter,
             e.dp.header_time, e.dp.bid)

\* C30: for every event header the decode comes to, one in the last 1 to 3
\* words of the packet and one with a DPP-DAW channel whose length field is
\* words_in_event included, ProcessEvent and ProcessChannel read no word at
\* or behind the end of the packet, and the cursor ProcessEvent returns is at
\* most min(buff[0] & 0x0FFFFFFF, the words that remain).
C30_InBounds ==
  lastEv.w # 0 =>
    /\ \A i \in ReadsOf(lastEv) : i < Len(lastEv.dp.buff)
    /\ lastEv.ret <= Min(Low28(Rd(lastEv.dp, lastEv.base)),
                         Len(lastEv.dp.buff) - lastEv.base)

----------------------------------------------------------------------------
(* Properties of the pipeline *)

\* the packets a worker holds, in the order it decodes them
Held(F) == (IF F.dp = << >> THEN << >> ELSE <<F.dp.id>>) \o Ids(F.b)

\* C1: the queue of a board is FIFO, and GetData hands every packet to one
\* worker, once: the packets the worker of a board has been handed, followed
\* by those queued, are the packets pushed for that board in the order of
\* the pushes (short of those End deleted), no packet was handed out twice,
\* and the worker holds those it was handed and has not freed, in that order.
C1_FifoExactlyOnce ==
  \A b \in Boards :
    LET through == hist.taken[b] \o Ids(fBuffer[b])
        taken == hist.taken[b]
    IN /\ IsPrefix(through, hist.pushed[b])
       /\ \A k \in Len(through) + 1 .. Len(hist.pushed[b]) :
            hist.pushed[b][k] \in hist.dropped
       /\ \A j, k \in 1 .. Len(taken) : taken[j] = taken[k] => j = k
       /\ \A k \in 1 .. Len(taken) : taken[k] \notin hist.dropped
       /\ \E n \in 0 .. Len(taken) :
            /\ Held(fmtr[b]) = SubSeq(taken, n + 1, Len(taken))
            /\ \A k \in 1 .. n : taken[k] \in hist.freed
       /\ hist.leaked = {}

\* two packets of one board were handed out by two calls of the
\* single-packet GetData, and the worker decodes the second
C1_Witness ==
  /\ bufferType = "single"
  /\ Len(hist.taken[1]) = 2
  /\ Len(hist.pushed[1]) = 2
  /\ fmtr[1].pc = "scan"

\* C2: on a graceful stop (no force-quit) every packet enqueued before the
\* stop has been decoded by the worker of its board when that worker reports
\* that it no longer runs, and none is left in the queue for End to delete.
C2_GracefulDrain ==
  \A w \in Boards :
    (fmtr[w].pc = "done" /\ ~fmtr[w].fForceQuit) =>
      /\ fBuffer[w] = << >>
      /\ \A k \in 1 .. Len(hist.pushed[w]) : hist.pushed[w][k] \in hist.freed
      /\ \A k \in 1 .. Len(hist.pushed[w]) : hist.pushed[w][k] \notin hist.dropped

\* C6: a packet in a queue carries the clock counter and the header time its
\* board had when the block was read.
C6_PacketCarriesClock ==
  \A b \in Boards : \A k \in 1 .. Len(fBuffer[b]) :
    /\ fBuffer[b][k].clock_counter = fBuffer[b][k].read_cc
    /\ fBuffer[b][k].header_time = fBuffer[b][k].read_ht

\* C7: the global timestamps a worker derives for the successive events of
\* its board never decrease, rollovers of the board's clock included.
C7_TimestampsMonotone ==
  \A w \in Boards :
    \A k \in 1 .. Len(fmtr[w].times) - 1 : fmtr[w].times[k] <= fmtr[w].times[k + 1]

\* C12: the boards are stopped (AcquisitionStop) and deleted (End) only
\* when the running flag of every readout loop is false.
C12_TeardownAfterLoops ==
  [][(sup'.pc \in {"deactivated", "deleted"} /\ sup'.pc # sup.pc)
       => \A l \in Links : ~fRunning[l]]_vars

----------------------------------------------------------------------------
(* Properties of the worker's stop *)

\* C13: once a stop has been requested of a worker (Close or the destructor
\* has set fActive = false), the worker leaves its loop and sets fRunning =
\* false, and the destructor returns, whenever the request falls relative
\* to the start of ReadAndInsertData, the threads being scheduled fairly.
C13_StopTerminates ==
  (sup.pc # "idle") ~> (fmtr[1].pc = "done" /\ ~fmtr[1].fRunning
                        /\ sup.pc = "returned")

RECURSIVE Written(_, _)
\* the bytes the sink has been handed under the chunk name `key`
Written(out, key) ==
  IF out = << >> THEN << >>
  ELSE (IF key \in DOMAIN Head(out) THEN Head(out)[key] ELSE << >>)
       \o Written(Tail(out), key)

\* the chunk names of the fragments the worker has added to its buffer
AddedKeys(F) == UNION {ExpectedKeys(F.added[i][2]) : i \in 1 .. Len(F.added)}

\* C14: fRunning = false is never seen while the chunk buffer of the worker
\* holds fragments; a worker that has stopped without force-quit has
\* finished every packet of the batches it took, and all that it buffered
\* has been handed to the sink by then.
C14_FlushBeforeStop ==
  LET F == fmtr[1]
  IN /\ ~F.fRunning => DOMAIN F.fFragments = {}
     /\ F.pc = "done" =>
          /\ \A k \in AddedKeys(F) : Written(sink, k) = Routed(F.added, k)
          /\ ~F.fForceQuit =>
               \A k \in 1 .. Len(hist.taken[1]) :
                 hist.taken[1][k] \in hist.freed \ hist.lost

\* a worker of a dual buffer has stopped without force-quit after a batch
\* of two packets, and the sink holds the fragments of the two chunks
C14_Witness ==
  LET F == fmtr[1]
  IN /\ bufferType = "dual"
     /\ F.pc = "done" /\ ~F.fRunning /\ ~F.fForceQuit
     /\ Len(hist.taken[1]) = 2
     /\ Len(F.added) = 4
     /\ Len(sink) = 1
     /\ DOMAIN sink[1] = AddedKeys(F)

\* C15: once the worker has found fForceQuit true it decodes no further
\* event; the packets left of its batch are deleted undecoded, and the end
\* flush still comes before fRunning = false.
C15_NoDecodeAfterForceQuit ==
  /\ [][fmtr[1].quitSeen
         => fmtr'[1].fEventsProcessed = fmtr[1].fEventsProcessed]_vars
  /\ [](fmtr[1].quitSeen /\ fmtr[1].pc \in {"loop", "end", "done"}
         => fmtr[1].b = << >>)
  /\ [](fmtr[1].quitSeen /\ ~fmtr[1].fRunning => DOMAIN fmtr[1].fFragments = {})

\* the destructor sets fForceQuit in this step
ForceQuitSet == fmtr'[1].fForceQuit /\ ~fmtr[1].fForceQuit

----------------------------------------------------------------------------
(* Properties of the queue of a board *)

RECURSIVE SizeOf(_)
\* the bytes of the packets of a queue
SizeOf(q) == IF q = << >> THEN 0 ELSE Head(q).size + SizeOf(Tail(q))

\* C17: GetData of a dual buffer takes all the packets queued for the board
\* in one step under the mutex of the board: when it returns non-zero the
\* queue is empty and the length and size counters are 0; the batches keep
\* the order of the queue; a packet pushed meanwhile is whole in this batch
\* or whole in the queue for a later one, and none is lost or taken twice.
C17_LockedSwap ==
  /\ [][\A w \in Boards :
          (fmtr[w].pc = "unlock" /\ fmtr'[w].pc = "batch")
            => /\ fBuffer'[w] = << >>
               /\ fBufferLength'[w] = 0
               /\ fBufferSize'[w] = 0
               /\ fmtr'[w].b # << >>]_vars
  /\ [](\A w \in Boards :
          hist.pushed[w] =
            (IF fmtr[w].pc = "batch"
               THEN SubSeq(hist.taken[w], 1, Len(hist.taken[w]) - Len(fmtr[w].b))
               ELSE hist.taken[w]) \o Ids(fmtr[w].b) \o Ids(fBuffer[w]))
  /\ [](hist.leaked = {})
  /\ [](\A w \in Boards :
          fBufferMutex[w] = "free"
            => /\ fBufferLength[w] = Len(fBuffer[w])
               /\ fBufferSize[w] = SizeOf(fBuffer[w]))

\* the worker of board 1 holds a second batch, of the packet that was
\* pushed while it took the first
C17_Witness ==
  /\ hist.taken[1] = <<1, 2>>
  /\ fmtr[1].pc = "batch"
  /\ Ids(fmtr[1].b) = <<2>>
  /\ fBuffer[1] = << >>

\* C24: whenever the mutex of a board is free, the length counter of the
\* board is the number of packets in its queue and its size counter the sum
\* of their sizes, through the start of ReadData, the pushes, GetData of
\* either kind and End.
C24_CountersAgree ==
  \A b \in Boards :
    fBufferMutex[b] = "free"
      => /\ fBufferLength[b] = Len(fBuffer[b])
         /\ fBufferSize[b] = SizeOf(fBuffer[b])

----------------------------------------------------------------------------
(* Properties of the loop of ReadData *)

\* C25: ReadData pushes a packet exactly when the block read has returned a
\* positive byte count, once, into the queue of the board read and with
\* that board's id, and counts it in the length, size and data-rate
\* counters; after a read of zero or fewer bytes the queues and counters
\* are as before; a negative read ends the pass over the boards of the
\* link and leaves the flag of the readout loop as it is.
C25_ReadOutcome ==
  [][\A l \in Links :
       (ro[l].pc = "mblt" /\ ro'[l].pc # "mblt") =>
         LET bid == BoardAt(l)
             ret == ro'[l].ret
             n == Len(fBuffer[bid])
         IN /\ (ret > 0) <=> (fBuffer' # fBuffer)
            /\ ret > 0 =>
                 /\ Len(fBuffer'[bid]) = n + 1
                 /\ SubSeq(fBuffer'[bid], 1, n) = fBuffer[bid]
                 /\ fBuffer'[bid][n + 1].bid = bid
                 /\ fBuffer'[bid][n + 1].size = ret
                 /\ \A b \in Boards \ {bid} : fBuffer'[b] = fBuffer[b]
                 /\ fBufferLength' = [fBufferLength EXCEPT ![bid] = @ + 1]
                 /\ fBufferSize' = [fBufferSize EXCEPT ![bid] = @ + ret]
                 /\ fDataRate' = fDataRate + ret
            /\ ret <= 0 => UNCHANGED <<fBuffer, fBufferLength, fBufferSize, fDataRate>>
            /\ ret < 0 => /\ ro'[l].pc = "while"
                          /\ ro'[l].i = ro[l].i
                          /\ fReadLoop' = fReadLoop
            /\ (ret = 0 /\ ro[l].i < Len(fDigitizers[l])) =>
                 /\ ro'[l].pc = "read"
                 /\ ro'[l].i = ro[l].i + 1]_vars

\* a read of board 1 has failed in a pass that follows one in which
\* board 2 delivered a block
C25_Witness ==
  /\ ro[0].pc = "while"
  /\ ro[0].i = 1
  /\ ro[0].ret < 0
  /\ fReadLoop
  /\ fBufferLength[2] = 1
  /\ fBuffer[1] = << >>

\* C26: while the readout loop is not stopped, every board of a link is
\* read again and again, also when another board of the link returns a
\* negative read on every pass.
C26_NoStarvation ==
  \A l \in Links : \A k \in 1 .. Len(fDigitizers[l]) :
    []<>(ro[l].pc = "mblt" /\ ro[l].i = k)

\* C26, amended: every board of a link is read again and again unless a
\* board before it in the list of the link has begun to fail on every
\* pass; the thread does not go on from a board that fails to the boards
\* behind it.
C26_ReadUnlessStarved ==
  /\ \A l \in Links : \A k \in 1 .. Len(fDigitizers[l]) :
       []<>((ro[l].pc = "mblt" /\ ro[l].i = k) \/ DeadBefore(l, k))
  /\ [][\A l \in Links :
          (ro[l].pc \in {"read", "flag", "errors", "mblt"} /\ digi[BoardAt(l)].dead)
            => (ro'[l].i = ro[l].i \/ ro'[l].i = 1)]_vars

\* board 2 has delivered a block, board 1 has begun to fail and has ended
\* a pass
C26_Witness ==
  /\ digi[1].dead
  /\ ro[0].ret < 0
  /\ ro[0].pc = "read"
  /\ ro[0].i = 1
  /\ hist.pushed[2] # << >>

\* C27: once Stop has set fReadLoop false, every readout thread comes to
\* set the running flag of its link false and to return, however Stop is
\* interleaved with the start of ReadData.
C27_StopEndsReadout ==
  (sup.pc # "idle") ~> (\A l \in Links : ro[l].pc = "done" /\ ~fRunning[l])

\* a mark of CheckError on board b that no read of the error register has
\* followed is still in fCheckFails, or the thread is about to read the
\* register of b
MarkKept(b) ==
  hist.pending[b] =>
    (fCheckFails[b] \/ \E l \in Links : ro[l].pc = "errors" /\ BoardAt(l) = b)

\* C28: after every CheckError(bid) of a worker the readout loop of the
\* board's link reads the error register of the board at least once; the
\* flag is cleared before the register is read, so that a mark set during
\* an inspection is covered by its read or still set after it.
C28_FlagInspected ==
  /\ \A b \in Boards : hist.pending[b] ~> ~hist.pending[b]
  /\ [](\A b \in Boards : MarkKept(b))

\* C28, amended: the register is read unless a board before the marked one
\* in the list of the link has begun to fail on every pass, in which case
\* the mark stays set.
C28_FlagInspectedUnlessStarved ==
  /\ \A l \in Links : \A k \in 1 .. Len(fDigitizers[l]) :
       hist.pending[fDigitizers[l][k]]
         ~> (~hist.pending[fDigitizers[l][k]] \/ DeadBefore(l, k))
  /\ [](\A b \in Boards : MarkKept(b))

\* board 2 has been marked again between the clearing of its flag and the
\* read of its register
C28_Witness ==
  /\ ro[0].pc = "errors"
  /\ BoardAt(0) = 2
  /\ fCheckFails[2]
  /\ hist.pending[2]

----------------------------------------------------------------------------
(* Properties of the ownership of the packets *)

\* the elements of a sequence
Range(q) == {q[k] : k \in 1 .. Len(q)}

\* C33: a packet a worker has taken from the queue is deleted once, by
\* ProcessDatapacket or by the loop that drops the rest of a batch on
\* fForceQuit, with either buffer type and wherever fForceQuit is set: the
\* worker deletes packets it has taken and still holds, none twice, and has
\* deleted all it has taken when it is between two batches or has left its
\* loop.
C33_FreedOnce ==
  \A w \in Boards :
    LET frees == hist.frees[w]
    IN /\ \A j, k \in 1 .. Len(frees) : frees[j] = frees[k] => j = k
       /\ Range(frees) \subseteq Range(hist.taken[w])
       /\ Range(frees) \cap Range(Held(fmtr[w])) = {}
       /\ fmtr[w].pc \in {"loop", "end", "done"} =>
            Range(hist.taken[w]) \subseteq Range(frees)

\* a worker of a dual buffer has left its loop after fForceQuit found it
\* with a batch of two packets, the second of them dropped undecoded
C33_Witness ==
  /\ bufferType = "dual"
  /\ fmtr[1].pc = "done"
  /\ fmtr[1].fForceQuit
  /\ Len(hist.frees[1]) = 2
  /\ hist.lost # {}

----------------------------------------------------------------------------
(* Properties of the data-rate counter *)

\* C34: the values GetDataSize has returned and the data-rate counter add
\* up to the bytes of the packets enqueued, however the calls of
\* GetDataSize fall between the pushes: no byte is lost and none counted
\* twice.
C34_RateConserved ==
  sup.pc = "idle" => hist.reported + fDataRate = hist.enqueued

----------------------------------------------------------------------------
(* Properties of the thread pool *)

\* C35: the destructor of the pool ends: once Kill has set fFinishNow and
\* notified, every thread leaves Run and is joined, wherever the write of
\* the flag and the notification fall with respect to the test of the
\* predicate in a thread's wait, and although the destructor holds the
\* mutex of the pool while it joins.
C35_DestructorEnds ==
  (pool.dtor # "idle") ~> (pool.dtor = "done")

----------------------------------------------------------------------------
(* Properties of the status of the controller *)

\* fStatus is Armed only when InitializeElectronics has returned 0 after
\* the Init of every board and the programming of every link succeeded
ArmedOnlyAfterSuccess ==
  daq.fStatus = "Armed" =>
    /\ daq.pc = "idle"
    /\ daq.last = "InitializeElectronics" => daq.ret = 0
    /\ daq.inited = Range(ArmBoards)
    /\ \A l \in ArmLinks : daq.rets[l] = 0

\* when InitializeElectronics has returned -1, fStatus is Error if a link
\* has reported -2 and Idle if none has
FailureStatus ==
  (daq.pc = "idle" /\ daq.last = "InitializeElectronics" /\ daq.ret = -1) =>
    daq.fStatus = IF \E l \in ArmLinks : daq.rets[l] = -2 THEN "Error" ELSE "Idle"

\* C36: the status is Armed only after InitializeElectronics has
\* initialised and programmed every board and returned 0; when it returns -1
\* the status is Idle, or Error exactly when a link reported -2; and the
\* status becomes Running only by Start() called in the Armed state.
C36_Status ==
  /\ ArmedOnlyAfterSuccess
  /\ FailureStatus
  /\ daq.fStatus = "Running" => daq.from \in {"Armed", "Running"}

\* C36, amended: the status becomes Running only by a call of Start() that
\* returns 0, whatever the status it is called in; it stays Running through
\* calls of Start and Stop that return -1.
C36_StatusAsSet ==
  /\ ArmedOnlyAfterSuccess
  /\ FailureStatus
  /\ daq.fStatus = "Running" =>
       /\ daq.from \in {"Idle", "Armed", "Running", "Error"}
       /\ daq.last \in {"Start", "Stop"}
       /\ daq.pc = "idle"

\* InitializeElectronics has returned -1 with the status Error after a
\* link reported -2 and another -1, and the Start that followed has made
\* the status Running
C36_Witness ==
  /\ daq.last = "Start"
  /\ daq.fStatus = "Running"
  /\ daq.from = "Error"
  /\ daq.inited = Range(ArmBoards)
  /\ daq.rets[0] = -1
  /\ daq.rets[1] = -2

====
